---- MODULE Spec2Model ----
(***************************************************************************)
(* Model of the Epimetheus dashboard's view aggregation and reconciliation *)
(* layer (frontend/src/utils/api.js).                                      *)
(*                                                                         *)
(* JavaScript values are represented as follows.                           *)
(*  - A string is a sequence of fragments, mostly single characters, so    *)
(*    that startsWith, substring, replace and concatenation are computed.  *)
(*    undefined and the empty string are both falsy and no modelled code   *)
(*    tells them apart: both are written <<>>.                             *)
(*  - An object is a record; a field the object does not carry is absent   *)
(*    from the record's DOMAIN.  {} is the record with the empty domain.   *)
(*  - An array is a sequence.                                              *)
(***************************************************************************)
EXTENDS Integers, Sequences, FiniteSets, Bags, TLC

\* ------------------------------------------------------------------ bounds
MaxDocs == 2
MaxMeta == 2
MaxTags == 2
MaxVersions == 2
MaxFlows == 2

\* ------------------------------------------------------- JavaScript values
EmptyObj == <<>>
Undefined == <<>>
Null == <<>>

Has(obj, f) == f \in DOMAIN obj

\* obj.f is neither undefined nor "" (the left operand of || wins)
Truthy(obj, f) == Has(obj, f) /\ obj[f] # <<>>

MinOf(S) == CHOOSE m \in S : \A n \in S : m <= n

startsWith(s, p) == Len(s) >= Len(p) /\ SubSeq(s, 1, Len(p)) = p

\* s.substring(0, n)
substring0(s, n) == SubSeq(s, 1, IF n < Len(s) THEN n ELSE Len(s))

\* s.replace(p, ''): removes the first occurrence of p, if any
replaceWithEmpty(s, p) ==
  LET occ == {i \in 1..(Len(s) - Len(p) + 1) : SubSeq(s, i, i + Len(p) - 1) = p}
  IN IF occ = {} THEN s
     ELSE SubSeq(s, 1, MinOf(occ) - 1) \o SubSeq(s, MinOf(occ) + Len(p), Len(s))

\* Number.prototype.toString() of a small positive integer
Digit(d) == CASE d = 0 -> "0" [] d = 1 -> "1" [] d = 2 -> "2" [] d = 3 -> "3"
              [] d = 4 -> "4" [] d = 5 -> "5" [] d = 6 -> "6" [] d = 7 -> "7"
              [] d = 8 -> "8" [] d = 9 -> "9"

RECURSIVE toString(_)
toString(n) == IF n < 10 THEN <<Digit(n)>> ELSE toString(n \div 10) \o <<Digit(n % 10)>>

\* ------------------------------------------------------- time-age formatter
Template(n, unit) == [n |-> n, unit |-> IF n # 1 THEN unit \o "s" ELSE unit, tail |-> "ago"]

\* variant: the first threshold is inclusive
formatTimeAgo_inclusive(now, t) ==
  LET seconds == (now - t) \div 1000
      minutes == seconds \div 60
      hours   == minutes \div 60
      days    == hours \div 24
  IN IF seconds <= 60 THEN [text |-> "just now"]
     ELSE IF minutes < 60 THEN Template(minutes, "minute")
     ELSE IF hours < 24 THEN Template(hours, "hour")
     ELSE Template(days, "day")

\* formatTimeAgo(date), with Date.now() = now and date.getTime() = t, in ms
formatTimeAgo(now, t) ==
  LET seconds == (now - t) \div 1000
      minutes == seconds \div 60
      hours   == minutes \div 60
      days    == hours \div 24
  IN IF seconds < 60 THEN [text |-> "just now"]
     ELSE IF minutes < 60 THEN Template(minutes, "minute")
     ELSE IF hours < 24 THEN Template(hours, "hour")
     ELSE Template(days, "day")

\* new Date(iso).getTime(): an ISO timestamp is given by its instant in
\* seconds; getTime() is in milliseconds
DateGetTime(iso) == iso * 1000

\* ---------------------------------------------------- aggregation: helpers
SlackPrefix == <<"s", "l", "a", "c", "k", ":">>

\* variant: the prefix test is dropped
IsSlackTag_anyString(t) == t.type = "string"

\* typeof t === 'string' && t.startsWith('slack:')
IsSlackTag(t) == t.type = "string" /\ startsWith(t.chars, SlackPrefix)

\* variant: the last matching tag is taken instead of the first
slackChannelIdOf_lastMatch(metadata) ==
  IF ~Has(metadata, "tags") THEN <<>>
  ELSE LET found == {i \in 1..Len(metadata.tags) : IsSlackTag(metadata.tags[i])}
       IN IF found = {} THEN <<>>
          ELSE replaceWithEmpty(
                 metadata.tags[CHOOSE m \in found : \A n \in found : n <= m].chars,
                 SlackPrefix)

\* metadata.tags?.find(...) then slackTag ? slackTag.replace('slack:', '') : ''
slackChannelIdOf(metadata) ==
  IF ~Has(metadata, "tags") THEN <<>>
  ELSE LET found == {i \in 1..Len(metadata.tags) : IsSlackTag(metadata.tags[i])}
       IN IF found = {} THEN <<>>
          ELSE replaceWithEmpty(metadata.tags[MinOf(found)].chars, SlackPrefix)

\* variant: the document's own name is preferred to the metadata override
resolveName_docFirst(metadata, doc, docId) ==
  IF Truthy(doc, "name") THEN doc.name
  ELSE IF Truthy(metadata, "name") THEN metadata.name
  ELSE <<"Document ">> \o substring0(docId, 8)

\* metadata.name || doc.name || `Document ${docId.substring(0, 8)}`
resolveName(metadata, doc, docId) ==
  IF Truthy(metadata, "name") THEN metadata.name
  ELSE IF Truthy(doc, "name") THEN doc.name
  ELSE <<"Document ">> \o substring0(docId, 8)

\* doc.id || doc.doc_id
docIdOf(doc) ==
  IF Truthy(doc, "id") THEN doc.id
  ELSE IF Has(doc, "doc_id") THEN doc.doc_id ELSE Undefined

\* v.metadata?.chars_added || 0
charsAddedOf(v) ==
  IF Has(v, "metadata") /\ Has(v.metadata, "chars_added") THEN v.metadata.chars_added ELSE 0

\* variant: the positional number is the 0-based index
mapVersions_zeroBased(json) ==
  LET list == IF Has(json, "versions") THEN json.versions ELSE <<>>
  IN [idx \in 1..Len(list) |->
        [version    |-> idx - 1,
         versionId  |-> IF Has(list[idx], "version_id") THEN list[idx].version_id ELSE Undefined,
         timestamp  |-> DateGetTime(list[idx].created_at),
         charsAdded |-> charsAddedOf(list[idx])]]

\* (versionResponse.versions || []).map((v, idx) => ...)
mapVersions(json) ==
  LET list == IF Has(json, "versions") THEN json.versions ELSE <<>>
  IN [idx \in 1..Len(list) |->
        [version    |-> idx,
         versionId  |-> IF Has(list[idx], "version_id") THEN list[idx].version_id ELSE Undefined,
         timestamp  |-> DateGetTime(list[idx].created_at),
         charsAdded |-> charsAddedOf(list[idx])]]

\* A response of the remote service: kind "error" is a network failure or a
\* non-success status, "null" a success whose body is the JSON value null,
\* "ok" a success whose body is the object json.
\* The try/catch around getVersionHistory: a thrown request or a TypeError on
\* a null body both leave versions = [].
versionsOf(resp) ==
  IF resp.kind = "ok" THEN mapVersions(resp.json) ELSE <<>>

\* metadataList.forEach(meta => { metadataMap[meta.doc_id] = meta })
RECURSIVE buildMetadataMap(_, _)
buildMetadataMap(list, map) ==
  IF list = <<>> THEN map
  ELSE buildMetadataMap(Tail(list),
         [k \in DOMAIN map \cup {Head(list).doc_id} |->
            IF k = Head(list).doc_id THEN Head(list) ELSE map[k]])

\* metadataMap[docId] || {}
metadataFor(map, docId) == IF docId \in DOMAIN map THEN map[docId] ELSE EmptyObj

DocUrlPrefix == <<"https://docs.google.com/document/d/">>

\* variant: actionCount is read from a count field the response does not carry
buildChannel_countField(doc, map, verResp, now) ==
  LET docId    == docIdOf(doc)
      metadata == metadataFor(map, docId)
      versions == versionsOf(verResp)
  IN [id             |-> docId,
      name           |-> resolveName(metadata, doc, docId),
      status         |-> "active",
      messageCount   |-> 0,
      lastUpdate     |-> IF Has(doc, "modified_time")
                         THEN formatTimeAgo(now, DateGetTime(doc.modified_time))
                         ELSE [text |-> "never"],
      docUrl         |-> DocUrlPrefix \o docId,
      actionCount    |-> 0,
      slackChannelId |-> slackChannelIdOf(metadata),
      versions       |-> versions,
      metadata       |-> metadata]

\* The body of the documents.map callback once its version request settled
buildChannel(doc, map, verResp, now) ==
  LET docId    == docIdOf(doc)
      metadata == metadataFor(map, docId)
      versions == versionsOf(verResp)
  IN [id             |-> docId,
      name           |-> resolveName(metadata, doc, docId),
      status         |-> "active",
      messageCount   |-> 0,
      lastUpdate     |-> IF Has(doc, "modified_time")
                         THEN formatTimeAgo(now, DateGetTime(doc.modified_time))
                         ELSE [text |-> "never"],
      docUrl         |-> DocUrlPrefix \o docId,
      actionCount    |-> Len(versions),
      slackChannelId |-> slackChannelIdOf(metadata),
      versions       |-> versions,
      metadata       |-> metadata]

\* variant: getDocuments without its catch; the failure reaches the caller
getDocuments_noCatch(resp) ==
  IF resp.kind = "error" THEN [kind |-> "null"] ELSE resp

\* getDocuments / getAllMetadata: a failed request is caught and replaced by
\* an empty collection; a success returns the parsed body
getDocuments(resp) ==
  IF resp.kind = "error" THEN [kind |-> "ok", json |-> [documents |-> <<>>]] ELSE resp

getAllMetadata(resp) ==
  IF resp.kind = "error" THEN [kind |-> "ok", json |-> [documents |-> <<>>, count |-> 0]] ELSE resp

\* response.documents || []
listOf(resp) == IF Has(resp.json, "documents") THEN resp.json.documents ELSE <<>>

\* getChannelsData as a function of the responses it receives: verResps[i]
\* answers the version request of the i-th document.  A null body of either
\* list request raises a TypeError outside the per-request isolation.
getChannelsData(docResp, metaResp, verResps, now) ==
  LET documentsResponse == getDocuments(docResp)
      metadataResponse  == getAllMetadata(metaResp)
  IN IF documentsResponse.kind = "null" \/ metadataResponse.kind = "null"
     THEN [threw |-> TRUE, channels |-> <<>>]
     ELSE LET documents   == listOf(documentsResponse)
              metadataMap == buildMetadataMap(listOf(metadataResponse), EmptyObj)
          IN [threw    |-> FALSE,
              channels |-> [i \in 1..Len(documents) |->
                              buildChannel(documents[i], metadataMap, verResps[i], now)]]

\* ------------------------------------------------------------ state
VARIABLES
  pass,                        \* one call of a function of the API client, step by step
  activeTab, documents, selectedDocumentForHistory,
  loading, error, refreshing, totalMessageCount,   \* useState of the dashboard
  mounted,                     \* the mount effect has run
  flows,                       \* bag of the handlers suspended at an await
  dialog,                      \* the alert/confirm shown by the latest step
  localStorage,                \* the browser's persistent storage, key -> value
  userId,                      \* useState(() => getUserId())
  channels, showAddChannel,
  defaultThreshold,            \* useState of the local-storage dashboard (Dashboard.jsx)
  isSubmitting                 \* useState of its AddChannelModal

passVars == <<pass>>
localVars == <<channels, showAddChannel, defaultThreshold, isSubmitting>>
dashVars == <<activeTab, documents, selectedDocumentForHistory, loading, error,
              refreshing, totalMessageCount, mounted, flows, dialog, localStorage, userId,
              localVars>>
vars == <<pass, activeTab, documents, selectedDocumentForHistory, loading, error,
          refreshing, totalMessageCount, mounted, flows, dialog, localStorage, userId,
          localVars>>

\* ------------------------------------------------------ input universes
IdA == <<"1", "a", "2", "b", "3", "c", "4", "d", "5", "e">>
IdB == <<"d", "2">>
IdC == <<"f", "o", "l", "d", "e", "r", "0", "1">>
DocIds == {IdA, IdB, IdC}

DocName  == <<"N", "o", "t", "e", "s">>
MetaName == <<"O", "p", "s">>

SeqsUpTo(S, n) == UNION {[1..k -> S] : k \in 0..n}

StrTag(chars) == [type |-> "string", chars |-> chars]
TagValues == {StrTag(<<"x">>), StrTag(SlackPrefix \o <<"C", "1">>),
              StrTag(SlackPrefix \o <<"C", "2">>), [type |-> "number", value |-> 7]}
TagLists == SeqsUpTo(TagValues, MaxTags)

\* VersionRecords of the remote store; the second has no token and no
\* metadata, the third a metadata object without chars_added
VersionRecords ==
  {[version_id |-> <<"u", "1">>, created_at |-> 20, metadata |-> [chars_added |-> 5]],
   [created_at |-> 30],
   [version_id |-> <<"u", "3">>, created_at |-> 20, metadata |-> EmptyObj]}

ErrorResp == [kind |-> "error"]
NullResp  == [kind |-> "null"]
OkResp(json) == [kind |-> "ok", json |-> json]

\* -- a pass over several documents
AggDocs  == {[id |-> i] : i \in DocIds} \cup {[id |-> i, name |-> DocName] : i \in DocIds}
AggMetas == {[doc_id |-> i] : i \in {IdA, IdB}}
              \cup {[doc_id |-> i, name |-> MetaName] : i \in {IdA, IdB}}
AggDocLists == {d \in SeqsUpTo(AggDocs, MaxDocs) :
                  \A i, j \in 1..Len(d) : i # j => d[i].id # d[j].id}
AggDocResps == {ErrorResp, NullResp, OkResp(EmptyObj)}
                 \cup {OkResp([documents |-> d]) : d \in AggDocLists}
AggMetaResps == {ErrorResp, NullResp}
                 \cup {OkResp([documents |-> m, count |-> Len(m)]) : m \in SeqsUpTo(AggMetas, MaxMeta)}
AggVerResps == {ErrorResp,
                OkResp([versions |-> <<[version_id |-> <<"u", "1">>, created_at |-> 20,
                                        metadata |-> [chars_added |-> 5]]>>]),
                OkResp([versions |-> <<[created_at |-> 30],
                                       [version_id |-> <<"u", "3">>, created_at |-> 20,
                                        metadata |-> EmptyObj]>>])}

\* -- a pass over one document, with rich metadata and version history
OneDocs == [id : DocIds] \cup [id : DocIds, name : {<<>>, DocName}]
             \cup [id : DocIds, modified_time : {0}]
             \cup [id : DocIds, name : {<<>>, DocName}, modified_time : {0}]
OneMetas == [doc_id : {IdA, IdB}] \cup [doc_id : {IdA, IdB}, name : {<<>>, MetaName}]
              \cup [doc_id : {IdA, IdB}, tags : TagLists]
              \cup [doc_id : {IdA, IdB}, name : {<<>>, MetaName}, tags : TagLists]
OneVerResps == {ErrorResp, NullResp, OkResp(EmptyObj)}
                 \cup {OkResp([versions |-> v]) : v \in SeqsUpTo(VersionRecords, MaxVersions)}
\* Date.now() during the pass
NowMs == 90000

\* The documents whose version history the pass will request
ListedDocs(docResp) ==
  IF getDocuments(docResp).kind = "ok" THEN listOf(getDocuments(docResp)) ELSE <<>>

NewPass(docResp, metaResp, verResps) ==
  [pc |-> "created", docResp |-> docResp, metaResp |-> metaResp, verResps |-> verResps,
   now |-> NowMs, gotDocs |-> FALSE, gotMeta |-> FALSE,
   documents |-> <<>>, metadataMap |-> EmptyObj, pending |-> {}, results |-> <<>>,
   ret |-> <<>>]

\* ------------------------------------------ getChannelsData, step by step
\* The call: both list requests are issued (Promise.all)
getChannelsDataCalled ==
  /\ pass.pc = "created"
  /\ pass' = [pass EXCEPT !.pc = "lists"]
  /\ UNCHANGED dashVars

\* Continuation of the first Promise.all, once both list requests settled
AfterLists(p) ==
  IF getDocuments(p.docResp).kind = "null" \/ getAllMetadata(p.metaResp).kind = "null"
  THEN [p EXCEPT !.pc = "thrown"]
  ELSE LET docs == listOf(getDocuments(p.docResp))
           map  == buildMetadataMap(listOf(getAllMetadata(p.metaResp)), EmptyObj)
       IN IF docs = <<>>
          THEN [p EXCEPT !.pc = "returned", !.metadataMap = map]
          ELSE [p EXCEPT !.pc = "versions", !.documents = docs, !.metadataMap = map,
                         !.pending = 1..Len(docs)]

getDocumentsSettled ==
  /\ pass.pc = "lists" /\ ~pass.gotDocs
  /\ pass' = IF pass.gotMeta THEN AfterLists([pass EXCEPT !.gotDocs = TRUE])
             ELSE [pass EXCEPT !.gotDocs = TRUE]
  /\ UNCHANGED dashVars

getAllMetadataSettled ==
  /\ pass.pc = "lists" /\ ~pass.gotMeta
  /\ pass' = IF pass.gotDocs THEN AfterLists([pass EXCEPT !.gotMeta = TRUE])
             ELSE [pass EXCEPT !.gotMeta = TRUE]
  /\ UNCHANGED dashVars

\* variant: the pass returns as soon as the first version request settles
\* (Promise.race in place of Promise.all)
getVersionHistorySettled_firstWins(i) ==
  /\ pass.pc = "versions" /\ i \in pass.pending
  /\ LET ch   == buildChannel(pass.documents[i], pass.metadataMap, pass.verResps[i], pass.now)
         res  == [k \in DOMAIN pass.results \cup {i} |->
                    IF k = i THEN ch ELSE pass.results[k]]
         rest == pass.pending \ {i}
     IN pass' = [pass EXCEPT !.pc = "returned", !.pending = rest, !.results = res,
                             !.ret = <<ch>>]
  /\ UNCHANGED dashVars

\* variant: channels are collected in the order the requests complete
getVersionHistorySettled_completionOrder(i) ==
  /\ pass.pc = "versions" /\ i \in pass.pending
  /\ LET ch   == buildChannel(pass.documents[i], pass.metadataMap, pass.verResps[i], pass.now)
         res  == Append(pass.results, ch)
         rest == pass.pending \ {i}
     IN pass' = IF rest = {}
                THEN [pass EXCEPT !.pc = "returned", !.pending = rest, !.results = res,
                                  !.ret = res]
                ELSE [pass EXCEPT !.pending = rest, !.results = res]
  /\ UNCHANGED dashVars

\* variant: no try/catch around the version request; its failure rejects the
\* Promise.all and the pass throws
getVersionHistorySettled_noCatch(i) ==
  /\ pass.pc = "versions" /\ i \in pass.pending
  /\ LET ch   == buildChannel(pass.documents[i], pass.metadataMap, pass.verResps[i], pass.now)
         res  == [k \in DOMAIN pass.results \cup {i} |->
                    IF k = i THEN ch ELSE pass.results[k]]
         rest == pass.pending \ {i}
     IN pass' = IF pass.verResps[i].kind # "ok"
                THEN [pass EXCEPT !.pc = "thrown"]
                ELSE IF rest = {}
                THEN [pass EXCEPT !.pc = "returned", !.pending = rest, !.results = res,
                                  !.ret = [k \in 1..Len(pass.documents) |-> res[k]]]
                ELSE [pass EXCEPT !.pending = rest, !.results = res]
  /\ UNCHANGED dashVars

\* The version request of the i-th document settles and its callback runs to
\* the end; when it is the last one the second Promise.all resolves and the
\* pass returns the channels in document order
getVersionHistorySettled(i) ==
  /\ pass.pc = "versions" /\ i \in pass.pending
  /\ LET ch   == buildChannel(pass.documents[i], pass.metadataMap, pass.verResps[i], pass.now)
         res  == [k \in DOMAIN pass.results \cup {i} |->
                    IF k = i THEN ch ELSE pass.results[k]]
         rest == pass.pending \ {i}
     IN pass' = IF rest = {}
                THEN [pass EXCEPT !.pc = "returned", !.pending = rest, !.results = res,
                                  !.ret = [k \in 1..Len(pass.documents) |-> res[k]]]
                ELSE [pass EXCEPT !.pending = rest, !.results = res]
  /\ UNCHANGED dashVars

NextAgg ==
  \/ getChannelsDataCalled
  \/ getDocumentsSettled
  \/ getAllMetadataSettled
  \/ \E i \in 1..MaxDocs : getVersionHistorySettled(i)

\* ---------------------------------------------------- mutation requests
\* A response to a mutation request: "ok"; "http", a non-success status whose
\* JSON body may carry a detail; "httpText", a non-success status whose body
\* is not JSON; "network", the fetch itself rejected.
MutationResps == {[kind |-> "ok"],
                  [kind |-> "http", body |-> [detail |-> "version not found"]],
                  [kind |-> "http", body |-> EmptyObj],
                  [kind |-> "httpText"],
                  [kind |-> "network"]}

NetworkErrorMessage == "Failed to fetch"
JsonErrorMessage    == "Unexpected token < in JSON"
TypeErrorMessage    == "Cannot read properties of null"

\* if (!response.ok) { const error = await response.json();
\*                     throw new Error(error.detail || generic) }
mutationOutcome(resp, generic) ==
  CASE resp.kind = "ok"       -> [threw |-> FALSE]
    [] resp.kind = "network"  -> [threw |-> TRUE, message |-> NetworkErrorMessage]
    [] resp.kind = "httpText" -> [threw |-> TRUE, message |-> JsonErrorMessage]
    [] resp.kind = "http"     ->
         [threw |-> TRUE,
          message |-> IF Has(resp.body, "detail") /\ resp.body.detail # ""
                      THEN resp.body.detail ELSE generic]

createDocument(resp)  == mutationOutcome(resp, "Failed to create document")
forceUpdate(resp)     == mutationOutcome(resp, "Failed to force update")
revertVersion(resp)   == mutationOutcome(resp, "Failed to revert version")
syncDriveFolder(resp) == mutationOutcome(resp, "Failed to sync Drive folder")

\* if (!response.ok) throw new Error(generic), inside try { } catch { throw }
plainOutcome(resp, generic) ==
  CASE resp.kind = "ok"      -> [threw |-> FALSE]
    [] resp.kind = "network" -> [threw |-> TRUE, message |-> NetworkErrorMessage]
    [] OTHER                 -> [threw |-> TRUE, message |-> generic]

updateMetadata(resp) == plainOutcome(resp, "Failed to update metadata")
getStatus(resp)      == plainOutcome(resp, "Failed to fetch status")

\* variant: the catch block rethrows, as in the hard functions
getMessageCount_noCatch(resp) ==
  IF resp.kind = "ok" THEN [threw |-> FALSE, value |-> resp.json]
  ELSE [threw |-> TRUE, message |-> "Failed to fetch message count"]

\* getMessageCount: the count object, or {count: 0} on any failure
getMessageCount(resp) ==
  IF resp.kind = "ok" THEN [threw |-> FALSE, value |-> resp.json]
  ELSE [threw |-> FALSE, value |-> [count |-> 0]]

\* messageCountData.count || 0
countOf(data) == IF Has(data, "count") THEN data.count ELSE 0

\* ------------------------------------------ responses seen by the dashboard
DashDocA == [id |-> IdA, name |-> DocName, modified_time |-> 0]
DashDocB == [id |-> IdB]
DashDocResps == {NullResp, ErrorResp,
                 OkResp([documents |-> <<DashDocA, DashDocB>>])}
DashMetaResps == {OkResp([documents |-> <<[doc_id |-> IdB, name |-> MetaName,
                                           tags |-> <<StrTag(SlackPrefix \o <<"C", "1">>)>>]>>,
                          count |-> 1])}
\* the first document has two versions, the second of them without a token;
\* the version request of the second document fails
DashVerResps == <<OkResp([versions |-> <<[version_id |-> <<"u", "1">>, created_at |-> 20,
                                          metadata |-> [chars_added |-> 5]],
                                         [created_at |-> 30]>>]),
                  ErrorResp>>
\* the mutation responses the dashboard is run against
DashMutationResps ==
  {r \in MutationResps : r.kind \in {"ok", "network"} \/ (r.kind = "http" /\ Has(r.body, "detail"))}
MsgCountResps == {ErrorResp, OkResp([count |-> 3])}

\* What one call of getDocumentsData can return or throw
AggregationOutcomes ==
  {getChannelsData(d, m, DashVerResps, NowMs) : d \in DashDocResps, m \in DashMetaResps}

\* ------------------------------------------------------ the user identifier
UserIdKey == "epimetheus_userId"

\* `user_${Date.now()}_${Math.random().toString(36).substr(2, 9)}`
generateUserId == <<"user_", "1762041600000", "_", "k3x9q2m1z">>

\* An identifier generated by an earlier visit
StoredUserId == <<"user_", "1730505600000", "_", "a8d0w4ty7">>

\* localStorage.setItem(key, value)
setItem(storage, key, value) ==
  [k \in DOMAIN storage \cup {key} |-> IF k = key THEN value ELSE storage[k]]

\* variant: a fresh identifier is generated and stored on every visit
getUserId_alwaysGenerate(storage) ==
  [storage |-> setItem(storage, UserIdKey, generateUserId), value |-> generateUserId]

\* getUserId of the dashboard: the storage it leaves and the value it returns
getUserId(storage) ==
  IF Truthy(storage, UserIdKey)
  THEN [storage |-> storage, value |-> storage[UserIdKey]]
  ELSE [storage |-> setItem(storage, UserIdKey, generateUserId), value |-> generateUserId]

\* What the storage can hold when the page is opened: nothing, or what
\* earlier visits of the two dashboards left there
Storages ==
  {EmptyObj,
   [epimetheus_userId |-> StoredUserId,
    epimetheus_channels |-> <<"[]">>]}

\* ---------------------------------------------------------- the dashboard
NoDialog == [type |-> "none"]
Alert(text) == [type |-> "alert", text |-> text]
Confirm(text, answer) == [type |-> "confirm", text |-> text, answer |-> answer]

\* A handler suspended at an await: which handler, what it awaits, the
\* request it sent, and the arguments it was called with
Flow(handler, awaiting, request, locals) ==
  [handler |-> handler, awaiting |-> awaiting, request |-> request, locals |-> locals]

Started(f) == flows (+) SetToBag({f})
Ended(f) == flows (-) SetToBag({f})
Resumed(f, g) == (flows (-) SetToBag({f})) (+) SetToBag({g})
Suspended == BagToSet(flows)
InFlight == BagCardinality(flows)

\* documents.filter(doc => doc.id !== documentId)
RECURSIVE filterOut(_, _)
filterOut(docs, documentId) ==
  IF docs = <<>> THEN <<>>
  ELSE IF Head(docs).id # documentId
       THEN <<Head(docs)>> \o filterOut(Tail(docs), documentId)
       ELSE filterOut(Tail(docs), documentId)

\* selectedDocumentForHistory ? documents.filter(doc => doc.id === it) : documents
RECURSIVE filterOnly(_, _)
filterOnly(docs, documentId) ==
  IF docs = <<>> THEN <<>>
  ELSE IF Head(docs).id = documentId
       THEN <<Head(docs)>> \o filterOnly(Tail(docs), documentId)
       ELSE filterOnly(Tail(docs), documentId)

documentsToShow ==
  IF selectedDocumentForHistory # <<>>
  THEN filterOnly(documents, selectedDocumentForHistory) ELSE documents

\* documentsToShow.flatMap(doc => doc.versions.map(v => ({...v, documentId, documentName})))
RECURSIVE flatMapVersions(_)
flatMapVersions(docs) ==
  IF docs = <<>> THEN <<>>
  ELSE [i \in 1..Len(Head(docs).versions) |->
          [version      |-> Head(docs).versions[i].version,
           versionId    |-> Head(docs).versions[i].versionId,
           timestamp    |-> Head(docs).versions[i].timestamp,
           charsAdded   |-> Head(docs).versions[i].charsAdded,
           documentId   |-> Head(docs).id,
           documentName |-> Head(docs).name]]
       \o flatMapVersions(Tail(docs))

\* variant: the comparator sorts the oldest entry first
compareVersions_ascending(a, b) == a.timestamp - b.timestamp

\* (a, b) => b.timestamp - a.timestamp
compareVersions(a, b) == b.timestamp - a.timestamp

\* Array.prototype.sort(compareVersions), a stable sort: e is put before the
\* first entry that the comparator orders after it
RECURSIVE insertSorted(_, _)
insertSorted(e, sorted) ==
  IF sorted = <<>> THEN <<e>>
  ELSE IF compareVersions(e, Head(sorted)) < 0
       THEN <<e>> \o sorted
       ELSE <<Head(sorted)>> \o insertSorted(e, Tail(sorted))

RECURSIVE sort(_)
sort(list) ==
  IF list = <<>> THEN <<>>
  ELSE insertSorted(list[Len(list)], sort(SubSeq(list, 1, Len(list) - 1)))

\* const allVersions = documentsToShow.flatMap(...).sort(...)
allVersions == sort(flatMapVersions(documentsToShow))

\* documents.reduce((sum, doc) => sum + (doc.versions?.length || 0), 0)
RECURSIVE reduceVersions(_)
reduceVersions(docs) ==
  IF docs = <<>> THEN 0
  ELSE reduceVersions(SubSeq(docs, 1, Len(docs) - 1))
         + (IF Has(docs[Len(docs)], "versions") THEN Len(docs[Len(docs)].versions) ELSE 0)

\* The three stats cards: {totalMessageCount}, {documents.length} and the
\* reduce over the versions
statsCards ==
  [totalMessages   |-> totalMessageCount,
   activeDocuments |-> Len(documents),
   totalVersions   |-> reduceVersions(documents)]

DocumentIds == {documents[i].id : i \in 1..Len(documents)}

\* the part of fetchDocuments before its await
fetchDocumentsStarts(handler, locals) ==
  /\ loading' = TRUE
  /\ error' = <<>>
  /\ flows' = Started(Flow(handler, "fetchDocuments", [op |-> "aggregate"], locals))

\* The first render, useState(() => getUserId()) included, and the mount
\* effect that follows it: useEffect(() => { fetchDocuments() }, [])
Mount ==
  /\ ~mounted
  /\ mounted' = TRUE
  /\ localStorage' = getUserId(localStorage).storage
  /\ userId' = getUserId(localStorage).value
  /\ fetchDocumentsStarts("fetchDocuments", EmptyObj)
  /\ dialog' = NoDialog
  /\ UNCHANGED <<pass, localVars, activeTab, documents, selectedDocumentForHistory, refreshing,
                 totalMessageCount>>

\* the tab buttons
setActiveTab(tab) ==
  /\ mounted
  /\ activeTab' = tab
  /\ dialog' = NoDialog
  /\ UNCHANGED <<pass, localVars, localStorage, userId, documents, selectedDocumentForHistory, loading, error, refreshing,
                 totalMessageCount, mounted, flows>>

\* the history filter: the select (shown while no filter is set) and the
\* "Clear filter" button (shown while one is set)
setSelectedDocumentForHistory(value) ==
  /\ mounted /\ activeTab = "history"
  /\ \/ selectedDocumentForHistory = <<>> /\ documents # <<>> /\ value \in DocumentIds \cup {<<>>}
     \/ selectedDocumentForHistory # <<>> /\ value = <<>>
  /\ selectedDocumentForHistory' = value
  /\ dialog' = NoDialog
  /\ UNCHANGED <<pass, localVars, localStorage, userId, activeTab, documents, loading, error, refreshing,
                 totalMessageCount, mounted, flows>>

\* the per-document "history" button of the document list
handleRevert(documentId) ==
  /\ mounted /\ activeTab = "dashboard" /\ ~loading
  /\ documentId \in DocumentIds
  /\ selectedDocumentForHistory' = documentId
  /\ activeTab' = "history"
  /\ dialog' = NoDialog
  /\ UNCHANGED <<pass, localVars, localStorage, userId, documents, loading, error, refreshing, totalMessageCount,
                 mounted, flows>>

\* variant: the Refresh button is never disabled
refreshDocuments_noGate ==
  /\ mounted
  /\ InFlight < MaxFlows
  /\ refreshing' = TRUE
  /\ fetchDocumentsStarts("refreshDocuments", EmptyObj)
  /\ dialog' = NoDialog
  /\ UNCHANGED <<pass, localVars, localStorage, userId, activeTab, documents, selectedDocumentForHistory,
                 totalMessageCount, mounted>>

\* the Refresh button, disabled while refreshing || loading
refreshDocuments ==
  /\ mounted /\ ~(refreshing \/ loading)
  /\ InFlight < MaxFlows
  /\ refreshing' = TRUE
  /\ fetchDocumentsStarts("refreshDocuments", EmptyObj)
  /\ dialog' = NoDialog
  /\ UNCHANGED <<pass, localVars, localStorage, userId, activeTab, documents, selectedDocumentForHistory,
                 totalMessageCount, mounted>>

\* the Retry button of the error banner
retry ==
  /\ mounted /\ activeTab = "dashboard" /\ error # <<>>
  /\ InFlight < MaxFlows
  /\ fetchDocumentsStarts("fetchDocuments", EmptyObj)
  /\ dialog' = NoDialog
  /\ UNCHANGED <<pass, localVars, localStorage, userId, activeTab, documents, selectedDocumentForHistory, refreshing,
                 totalMessageCount, mounted>>

\* the Resync Drive button, disabled while refreshing || loading
handleResyncDrive ==
  /\ mounted /\ ~(refreshing \/ loading)
  /\ InFlight < MaxFlows
  /\ refreshing' = TRUE
  /\ flows' = Started(Flow("handleResyncDrive", "syncDriveFolder", [op |-> "sync"], EmptyObj))
  /\ dialog' = NoDialog
  /\ UNCHANGED <<pass, localVars, localStorage, userId, activeTab, documents, selectedDocumentForHistory, loading, error,
                 totalMessageCount, mounted>>

\* the per-document "force update" button
handleForceUpdate(documentId) ==
  /\ mounted /\ activeTab = "dashboard" /\ ~loading
  /\ documentId \in DocumentIds
  /\ InFlight < MaxFlows
  /\ flows' = Started(Flow("handleForceUpdate", "forceUpdate",
                                 [op |-> "trigger", doc_id |-> documentId],
                                 [documentId |-> documentId]))
  /\ dialog' = NoDialog
  /\ UNCHANGED <<pass, localVars, localStorage, userId, activeTab, documents, selectedDocumentForHistory, loading, error,
                 refreshing, totalMessageCount, mounted>>

\* variant: the positional number is preferred to the token
idToUse_positionalFirst(version, versionId) ==
  IF version # 0 THEN toString(version) ELSE versionId

\* const idToUse = versionId || version.toString()
idToUse(version, versionId) ==
  IF versionId # <<>> THEN versionId ELSE toString(version)

RevertQuestion(version) ==
  <<"Are you sure you want to revert to version ">> \o toString(version) \o <<"?">>

\* variant: the answer of the confirmation is not looked at
handleRevertVersion_noConfirm(documentId, version, versionId, answer) ==
  /\ mounted /\ activeTab = "history"
  /\ \E i \in 1..Len(flatMapVersions(documentsToShow)) :
       LET e == flatMapVersions(documentsToShow)[i]
       IN e.documentId = documentId /\ e.version = version /\ e.versionId = versionId
  /\ dialog' = Confirm(RevertQuestion(version), answer)
  /\ InFlight < MaxFlows
  /\ flows' = Started(Flow("handleRevertVersion", "revertVersion",
                 [op |-> "revert", docId |-> documentId,
                  versionId |-> idToUse(version, versionId)],
                 [documentId |-> documentId, version |-> version, versionId |-> versionId]))
  /\ UNCHANGED <<pass, localVars, localStorage, userId, activeTab, documents, selectedDocumentForHistory, loading, error,
                 refreshing, totalMessageCount, mounted>>

\* the Revert button of a history entry, up to the await of revertVersion
handleRevertVersion(documentId, version, versionId, answer) ==
  /\ mounted /\ activeTab = "history"
  /\ \E i \in 1..Len(flatMapVersions(documentsToShow)) :
       LET e == flatMapVersions(documentsToShow)[i]
       IN e.documentId = documentId /\ e.version = version /\ e.versionId = versionId
  /\ dialog' = Confirm(RevertQuestion(version), answer)
  /\ IF answer
     THEN /\ InFlight < MaxFlows
          /\ flows' = Started(Flow("handleRevertVersion", "revertVersion",
                         [op |-> "revert", docId |-> documentId,
                          versionId |-> idToUse(version, versionId)],
                         [documentId |-> documentId, version |-> version,
                          versionId |-> versionId]))
     ELSE flows' = flows
  /\ UNCHANGED <<pass, localVars, localStorage, userId, activeTab, documents, selectedDocumentForHistory, loading, error,
                 refreshing, totalMessageCount, mounted>>

\* variant: the filter keeps the document instead of dropping it
handleDeleteDocument_keepOnly(documentId, answer) ==
  /\ mounted /\ activeTab = "dashboard" /\ ~loading
  /\ documentId \in DocumentIds
  /\ dialog' = Confirm(<<"Are you sure you want to remove this document from view?">>, answer)
  /\ documents' = IF answer THEN filterOnly(documents, documentId) ELSE documents
  /\ UNCHANGED <<pass, localVars, localStorage, userId, activeTab, selectedDocumentForHistory, loading, error, refreshing,
                 totalMessageCount, mounted, flows>>

\* the per-document "remove" button
handleDeleteDocument(documentId, answer) ==
  /\ mounted /\ activeTab = "dashboard" /\ ~loading
  /\ documentId \in DocumentIds
  /\ dialog' = Confirm(<<"Are you sure you want to remove this document from view?">>, answer)
  /\ documents' = IF answer THEN filterOut(documents, documentId) ELSE documents
  /\ UNCHANGED <<pass, localVars, localStorage, userId, activeTab, selectedDocumentForHistory, loading, error, refreshing,
                 totalMessageCount, mounted, flows>>

\* variant: setRefreshing(false) at the end of the try block, not in finally
syncDriveFolderSettled_noFinally(f, resp) ==
  /\ f \in Suspended /\ f.awaiting = "syncDriveFolder"
  /\ IF syncDriveFolder(resp).threw
     THEN /\ dialog' = Alert(<<"Failed to sync Drive: ", syncDriveFolder(resp).message>>)
          /\ flows' = Ended(f)
          /\ UNCHANGED <<loading, error, refreshing>>
     ELSE /\ loading' = TRUE
          /\ error' = <<>>
          /\ flows' = Resumed(f, Flow("handleResyncDrive", "fetchDocuments",
                                                [op |-> "aggregate"], f.locals))
          /\ dialog' = NoDialog
          /\ UNCHANGED refreshing
  /\ UNCHANGED <<pass, localVars, localStorage, userId, activeTab, documents, selectedDocumentForHistory,
                 totalMessageCount, mounted>>

\* handleResyncDrive resumes after await syncDriveFolder()
syncDriveFolderSettled(f, resp) ==
  /\ f \in Suspended /\ f.awaiting = "syncDriveFolder"
  /\ IF syncDriveFolder(resp).threw
     THEN /\ dialog' = Alert(<<"Failed to sync Drive: ", syncDriveFolder(resp).message>>)
          /\ refreshing' = FALSE
          /\ flows' = Ended(f)
          /\ UNCHANGED <<loading, error>>
     ELSE /\ loading' = TRUE
          /\ error' = <<>>
          /\ flows' = Resumed(f, Flow("handleResyncDrive", "fetchDocuments",
                                                [op |-> "aggregate"], f.locals))
          /\ dialog' = NoDialog
          /\ UNCHANGED refreshing
  /\ UNCHANGED <<pass, localVars, localStorage, userId, activeTab, documents, selectedDocumentForHistory,
                 totalMessageCount, mounted>>

\* variant: the failure of the request is not noticed
forceUpdateSettled_ignoreFailure(f, resp) ==
  /\ f \in Suspended /\ f.awaiting = "forceUpdate"
  /\ flows' = Resumed(f, Flow("handleForceUpdate", "getDocumentsData",
                              [op |-> "aggregate"], f.locals))
  /\ dialog' = NoDialog
  /\ UNCHANGED <<pass, localVars, localStorage, userId, activeTab, documents, selectedDocumentForHistory, loading, error,
                 refreshing, totalMessageCount, mounted>>

\* handleForceUpdate resumes after await forceUpdate(documentId)
forceUpdateSettled(f, resp) ==
  /\ f \in Suspended /\ f.awaiting = "forceUpdate"
  /\ IF forceUpdate(resp).threw
     THEN /\ dialog' = Alert(<<"Failed to trigger update: ", forceUpdate(resp).message>>)
          /\ flows' = Ended(f)
     ELSE /\ flows' = Resumed(f, Flow("handleForceUpdate", "getDocumentsData",
                                                [op |-> "aggregate"], f.locals))
          /\ dialog' = NoDialog
  /\ UNCHANGED <<pass, localVars, localStorage, userId, activeTab, documents, selectedDocumentForHistory, loading, error,
                 refreshing, totalMessageCount, mounted>>

\* variant: a failed revert request is sent again
revertVersionSettled_retry(f, resp) ==
  /\ f \in Suspended /\ f.awaiting = "revertVersion"
  /\ IF revertVersion(resp).threw
     THEN /\ dialog' = Alert(<<"Failed to revert version: ", revertVersion(resp).message>>)
          /\ flows' = flows
          /\ UNCHANGED <<loading, error>>
     ELSE /\ loading' = TRUE
          /\ error' = <<>>
          /\ flows' = Resumed(f, Flow("handleRevertVersion", "fetchDocuments",
                                                [op |-> "aggregate"], f.locals))
          /\ dialog' = NoDialog
  /\ UNCHANGED <<pass, localVars, localStorage, userId, activeTab, documents, selectedDocumentForHistory, refreshing,
                 totalMessageCount, mounted>>

\* handleRevertVersion resumes after await revertVersion(documentId, idToUse)
revertVersionSettled(f, resp) ==
  /\ f \in Suspended /\ f.awaiting = "revertVersion"
  /\ IF revertVersion(resp).threw
     THEN /\ dialog' = Alert(<<"Failed to revert version: ", revertVersion(resp).message>>)
          /\ flows' = Ended(f)
          /\ UNCHANGED <<loading, error>>
     ELSE /\ loading' = TRUE
          /\ error' = <<>>
          /\ flows' = Resumed(f, Flow("handleRevertVersion", "fetchDocuments",
                                                [op |-> "aggregate"], f.locals))
          /\ dialog' = NoDialog
  /\ UNCHANGED <<pass, localVars, localStorage, userId, activeTab, documents, selectedDocumentForHistory, refreshing,
                 totalMessageCount, mounted>>

\* handleForceUpdate resumes after await getDocumentsData()
getDocumentsDataSettled(f, outcome) ==
  /\ f \in Suspended /\ f.awaiting = "getDocumentsData"
  /\ IF outcome.threw
     THEN /\ dialog' = Alert(<<"Failed to trigger update: ", TypeErrorMessage>>)
          /\ UNCHANGED documents
     ELSE /\ documents' = outcome.channels
          /\ dialog' = Alert(<<"Document update triggered successfully!">>)
  /\ flows' = Ended(f)
  /\ UNCHANGED <<pass, localVars, localStorage, userId, activeTab, selectedDocumentForHistory, loading, error, refreshing,
                 totalMessageCount, mounted>>

\* variant: loading is cleared at the end of the try block, not in a finally
fetchDocumentsSettled_noFinally(f, outcome, countResp) ==
  /\ f \in Suspended /\ f.awaiting = "fetchDocuments"
  /\ IF outcome.threw \/ getMessageCount(countResp).threw
     THEN /\ error' = <<"Failed to load documents. Please check if the backend API is running.">>
          /\ documents' = <<>>
          /\ UNCHANGED totalMessageCount
     ELSE /\ documents' = outcome.channels
          /\ totalMessageCount' = countOf(getMessageCount(countResp).value)
          /\ UNCHANGED error
  /\ loading' = IF outcome.threw \/ getMessageCount(countResp).threw THEN loading ELSE FALSE
  /\ refreshing' = IF f.handler \in {"refreshDocuments", "handleResyncDrive"}
                   THEN FALSE ELSE refreshing
  /\ dialog' = CASE f.handler = "handleResyncDrive" ->
                      Alert(<<"Google Drive documents synced successfully!">>)
                 [] f.handler = "handleRevertVersion" ->
                      Alert(<<"Successfully reverted to version ">> \o toString(f.locals.version))
                 [] OTHER -> NoDialog
  /\ flows' = Ended(f)
  /\ UNCHANGED <<pass, localVars, localStorage, userId, activeTab, selectedDocumentForHistory, mounted>>

\* variant: a generation guard; the result of a pass is dropped while
\* another aggregation is in flight
fetchDocumentsSettled_guarded(f, outcome, countResp) ==
  /\ f \in Suspended /\ f.awaiting = "fetchDocuments"
  /\ IF outcome.threw \/ getMessageCount(countResp).threw
     THEN /\ error' = <<"Failed to load documents. Please check if the backend API is running.">>
          /\ documents' = <<>>
          /\ UNCHANGED totalMessageCount
     ELSE /\ documents' = IF \E g \in BagToSet(flows (-) SetToBag({f})) :
                                 g.awaiting \in {"fetchDocuments", "getDocumentsData"}
                          THEN documents ELSE outcome.channels
          /\ totalMessageCount' = countOf(getMessageCount(countResp).value)
          /\ UNCHANGED error
  /\ loading' = FALSE
  /\ refreshing' = IF f.handler \in {"refreshDocuments", "handleResyncDrive"}
                   THEN FALSE ELSE refreshing
  /\ dialog' = CASE f.handler = "handleResyncDrive" ->
                      Alert(<<"Google Drive documents synced successfully!">>)
                 [] f.handler = "handleRevertVersion" ->
                      Alert(<<"Successfully reverted to version ">> \o toString(f.locals.version))
                 [] OTHER -> NoDialog
  /\ flows' = Ended(f)
  /\ UNCHANGED <<pass, localVars, localStorage, userId, activeTab, selectedDocumentForHistory, mounted>>

\* fetchDocuments resumes after await Promise.all([getDocumentsData(),
\* getMessageCount()]), runs to its end, and its caller runs to its end
fetchDocumentsSettled(f, outcome, countResp) ==
  /\ f \in Suspended /\ f.awaiting = "fetchDocuments"
  /\ IF outcome.threw \/ getMessageCount(countResp).threw
     THEN /\ error' = <<"Failed to load documents. Please check if the backend API is running.">>
          /\ documents' = <<>>
          /\ UNCHANGED totalMessageCount
     ELSE /\ documents' = outcome.channels
          /\ totalMessageCount' = countOf(getMessageCount(countResp).value)
          /\ UNCHANGED error
  /\ loading' = FALSE
  /\ refreshing' = IF f.handler \in {"refreshDocuments", "handleResyncDrive"}
                   THEN FALSE ELSE refreshing
  /\ dialog' = CASE f.handler = "handleResyncDrive" ->
                      Alert(<<"Google Drive documents synced successfully!">>)
                 [] f.handler = "handleRevertVersion" ->
                      Alert(<<"Successfully reverted to version ">> \o toString(f.locals.version))
                 [] OTHER -> NoDialog
  /\ flows' = Ended(f)
  /\ UNCHANGED <<pass, localVars, localStorage, userId, activeTab, selectedDocumentForHistory, mounted>>

\* The arguments the Revert button of a history entry can pass
RevertArgs ==
  {<<e.documentId, e.version, e.versionId>> :
     e \in {flatMapVersions(documentsToShow)[i] : i \in 1..Len(flatMapVersions(documentsToShow))}}

\* useState initial values of EpimetheusDashboard; the component of
\* Dashboard.jsx is not rendered
DashInit ==
  /\ activeTab = "dashboard"
  /\ documents = <<>>
  /\ selectedDocumentForHistory = <<>>
  /\ loading = TRUE
  /\ error = <<>>
  /\ refreshing = FALSE
  /\ totalMessageCount = 0
  /\ mounted = FALSE
  /\ flows = EmptyBag
  /\ dialog = [type |-> "none"]
  /\ userId = <<>>
  /\ channels = <<>>
  /\ showAddChannel = FALSE
  /\ defaultThreshold = 10000
  /\ isSubmitting = FALSE

InitAgg ==
  /\ \E docResp \in AggDocResps, metaResp \in AggMetaResps :
       \E verResps \in [1..Len(ListedDocs(docResp)) -> AggVerResps] :
         pass = NewPass(docResp, metaResp, verResps)
  /\ DashInit
  /\ localStorage = EmptyObj

InitChannel ==
  /\ \E d \in OneDocs, m \in SeqsUpTo(OneMetas, 1), v \in OneVerResps :
       pass = NewPass(OkResp([documents |-> <<d>>]),
                      OkResp([documents |-> m, count |-> Len(m)]), <<v>>)
  /\ DashInit
  /\ localStorage = EmptyObj

Init ==
  /\ pass = NewPass(ErrorResp, ErrorResp, <<>>)
  /\ DashInit
  /\ localStorage \in Storages

Next ==
  \/ Mount
  \/ \E tab \in {"dashboard", "history", "settings"} : setActiveTab(tab)
  \/ \E value \in {IdA, IdB, <<>>} : setSelectedDocumentForHistory(value)
  \/ \E documentId \in {IdA, IdB} : handleRevert(documentId)
  \/ refreshDocuments
  \/ retry
  \/ handleResyncDrive
  \/ \E documentId \in {IdA, IdB} : handleForceUpdate(documentId)
  \/ \E a \in RevertArgs, answer \in BOOLEAN : handleRevertVersion(a[1], a[2], a[3], answer)
  \/ \E documentId \in {IdA, IdB}, answer \in BOOLEAN : handleDeleteDocument(documentId, answer)
  \/ \E f \in Suspended, resp \in DashMutationResps : syncDriveFolderSettled(f, resp)
  \/ \E f \in Suspended, resp \in DashMutationResps : forceUpdateSettled(f, resp)
  \/ \E f \in Suspended, resp \in DashMutationResps : revertVersionSettled(f, resp)
  \/ \E f \in Suspended, outcome \in AggregationOutcomes : getDocumentsDataSettled(f, outcome)
  \/ \E f \in Suspended, outcome \in AggregationOutcomes, countResp \in MsgCountResps :
       fetchDocumentsSettled(f, outcome, countResp)

Spec == Init /\ [][Next]_vars

\* The load flows of the dashboard alone: mount, retry, refresh and resync,
\* with the tab buttons
NextLoad ==
  \/ Mount
  \/ \E tab \in {"dashboard", "history", "settings"} : setActiveTab(tab)
  \/ refreshDocuments
  \/ retry
  \/ handleResyncDrive
  \/ \E f \in Suspended, resp \in DashMutationResps : syncDriveFolderSettled(f, resp)
  \/ \E f \in Suspended, outcome \in AggregationOutcomes, countResp \in MsgCountResps :
       fetchDocumentsSettled(f, outcome, countResp)

\* The mutation flows of the dashboard alone: resync, force-update and
\* revert, reached from the document list
NextMutation ==
  \/ Mount
  \/ \E documentId \in {IdA, IdB} : handleRevert(documentId)
  \/ handleResyncDrive
  \/ \E documentId \in {IdA, IdB} : handleForceUpdate(documentId)
  \/ \E a \in RevertArgs, answer \in BOOLEAN : handleRevertVersion(a[1], a[2], a[3], answer)
  \/ \E f \in Suspended, resp \in DashMutationResps : syncDriveFolderSettled(f, resp)
  \/ \E f \in Suspended, resp \in DashMutationResps : forceUpdateSettled(f, resp)
  \/ \E f \in Suspended, resp \in DashMutationResps : revertVersionSettled(f, resp)
  \/ \E f \in Suspended, outcome \in AggregationOutcomes : getDocumentsDataSettled(f, outcome)
  \/ \E f \in Suspended, outcome \in AggregationOutcomes, countResp \in MsgCountResps :
       fetchDocumentsSettled(f, outcome, countResp)

\* A request in flight is answered
Responded ==
  \/ \E f \in Suspended, resp \in DashMutationResps : syncDriveFolderSettled(f, resp)
  \/ \E f \in Suspended, resp \in DashMutationResps : forceUpdateSettled(f, resp)
  \/ \E f \in Suspended, resp \in DashMutationResps : revertVersionSettled(f, resp)
  \/ \E f \in Suspended, outcome \in AggregationOutcomes : getDocumentsDataSettled(f, outcome)
  \/ \E f \in Suspended, outcome \in AggregationOutcomes, countResp \in MsgCountResps :
       fetchDocumentsSettled(f, outcome, countResp)

\* The mount effect runs after the first render, and while requests are in
\* flight one of them is eventually answered
FairSpecMutation ==
  /\ Init /\ [][NextMutation]_vars
  /\ WF_vars(Mount)
  /\ WF_vars(Responded)

\* The mount effect runs after the first render, and every request of an
\* aggregation eventually responds
FairSpecLoad ==
  /\ Init /\ [][NextLoad]_vars
  /\ WF_vars(Mount)
  /\ WF_vars(\E f \in Suspended, outcome \in AggregationOutcomes, countResp \in MsgCountResps :
               fetchDocumentsSettled(f, outcome, countResp))

\* The collections a first aggregation of two documents can deliver, by
\* the version histories it received
HistVerResps == AggVerResps \cup {DashVerResps[1]}
HistCollections ==
  {getChannelsData(OkResp([documents |-> <<DashDocA, DashDocB>>]), m, <<a, b>>, NowMs).channels :
     m \in DashMetaResps, a \in HistVerResps, b \in HistVerResps}

\* The dashboard once its first aggregation has delivered a collection
InitHistory ==
  /\ pass = NewPass(ErrorResp, ErrorResp, <<>>)
  /\ activeTab = "dashboard"
  /\ documents \in HistCollections
  /\ selectedDocumentForHistory = <<>>
  /\ loading = FALSE
  /\ error = <<>>
  /\ refreshing = FALSE
  /\ totalMessageCount = 3
  /\ mounted = TRUE
  /\ flows = EmptyBag
  /\ dialog = NoDialog
  /\ localStorage = getUserId(EmptyObj).storage
  /\ userId = getUserId(EmptyObj).value
  /\ channels = <<>>
  /\ showAddChannel = FALSE
  /\ defaultThreshold = 10000
  /\ isSubmitting = FALSE

\* The operations that change what the history tab shows without a request
NextHistory ==
  \/ \E tab \in {"dashboard", "history", "settings"} : setActiveTab(tab)
  \/ \E value \in {IdA, IdB, <<>>} : setSelectedDocumentForHistory(value)
  \/ \E documentId \in {IdA, IdB} : handleRevert(documentId)
  \/ \E documentId \in {IdA, IdB}, answer \in BOOLEAN : handleDeleteDocument(documentId, answer)

SpecHistory == InitHistory /\ [][NextHistory]_vars

\* -- one call of a function of the API client
ApiResps ==
  MutationResps \cup {[kind |-> "http", body |-> [detail |-> "document is locked"]],
                      [kind |-> "http", body |-> [detail |-> ""]]}

ApiFunctions ==
  {"getStatus", "getMessageCount", "getDocuments", "getAllMetadata", "getVersionHistory",
   "createDocument", "updateMetadata", "forceUpdate", "revertVersion", "syncDriveFolder"}

\* The soft functions do not look at the kind of a failure
AsListResp(resp) == IF resp.kind = "ok" THEN OkResp(EmptyObj) ELSE ErrorResp

\* What the caller of fn gets when the request is answered by resp; for
\* getVersionHistory the caller is the try/catch of the documents.map callback
apiCall(fn, resp) ==
  CASE fn = "getStatus"         -> getStatus(resp)
    [] fn = "getMessageCount"   -> getMessageCount(AsListResp(resp))
    [] fn = "getDocuments"      -> [threw |-> FALSE, value |-> getDocuments(AsListResp(resp)).json]
    [] fn = "getAllMetadata"    -> [threw |-> FALSE, value |-> getAllMetadata(AsListResp(resp)).json]
    [] fn = "getVersionHistory" -> [threw |-> FALSE, value |-> versionsOf(AsListResp(resp))]
    [] fn = "createDocument"    -> createDocument(resp)
    [] fn = "updateMetadata"    -> updateMetadata(resp)
    [] fn = "forceUpdate"       -> forceUpdate(resp)
    [] fn = "revertVersion"     -> revertVersion(resp)
    [] fn = "syncDriveFolder"   -> syncDriveFolder(resp)

InitApi ==
  /\ \E fn \in ApiFunctions, resp \in ApiResps :
       pass = [pc |-> "requested", fn |-> fn, resp |-> resp]
  /\ DashInit
  /\ localStorage = EmptyObj

\* The request is answered and the function runs to its return or throw
requestSettled ==
  /\ pass.pc = "requested"
  /\ pass' = [pc |-> "settled", fn |-> pass.fn, resp |-> pass.resp,
              outcome |-> apiCall(pass.fn, pass.resp)]
  /\ UNCHANGED dashVars

NextApi == requestSettled

SpecApi == InitApi /\ [][NextApi]_vars

\* -- a pass over one document, by the age of the document
\* Date.now() during the pass, in ms: around every threshold of the
\* formatter, a millisecond before and at each
Thresholds == {1, 59, 60, 61, 119, 120, 3599, 3600, 3601, 7199, 7200, 86399, 86400, 86401,
               172799, 172800, 864000, 1728000}
Nows == {0, 1, 999} \cup {s * 1000 : s \in Thresholds} \cup {s * 1000 - 1 : s \in Thresholds}
\* modified_time of the document, in s: at the epoch, or one hour later
ModifiedTimes == {0, 3600}

InitTimeAgo ==
  /\ \E now \in Nows, t \in ModifiedTimes :
       pass = [NewPass(OkResp([documents |-> <<[id |-> IdA, modified_time |-> t]>>]),
                       ErrorResp, <<ErrorResp>>) EXCEPT !.now = now]
  /\ DashInit
  /\ localStorage = EmptyObj

SpecTimeAgo == InitTimeAgo /\ [][NextAgg]_vars

SpecAgg == InitAgg /\ [][NextAgg]_vars
SpecChannel == InitChannel /\ [][NextAgg]_vars

\* ------------------------------------------ the local-storage dashboard
\* (components/Dashboard.jsx): the channel collection lives in the
\* component and in localStorage; no request is sent.  The history view
\* (handleRevert, the filter, handleRevertVersion) and copyUserId read the
\* collection and show an alert; they write neither the collection nor the
\* storage and have no action here.
MaxChannels == 2
MaxHistory == 3

\* The variables of the remote dashboard, which this component leaves alone
remoteVars == <<pass, documents, selectedDocumentForHistory, loading, error, refreshing,
                totalMessageCount>>

\* `epimetheus_channels_${userId}`, tabulated over the identifiers a visit
\* can have
channelsKey(id) ==
  IF id = StoredUserId THEN "epimetheus_channels_user_1730505600000_a8d0w4ty7"
  ELSE "epimetheus_channels_user_1762041600000_k3x9q2m1z"

\* `epimetheus_threshold_${userId}`
thresholdKey(id) ==
  IF id = StoredUserId THEN "epimetheus_threshold_user_1730505600000_a8d0w4ty7"
  ELSE "epimetheus_threshold_user_1762041600000_k3x9q2m1z"

\* localStorage.getItem(key): the stored string, or null
getItem(storage, key) == IF Has(storage, key) THEN storage[key] ELSE Null

\* -- JSON text: a sequence of tokens, the punctuation marks and the
\* characters of strings and numbers
Quote == "\""
Backslash == "\\"
Digits == {"0", "1", "2", "3", "4", "5", "6", "7", "8", "9"}
DigitValue(c) == CHOOSE d \in 0..9 : Digit(d) = c

\* The characters of a string as JSON.stringify writes them: quote and
\* backslash are escaped
RECURSIVE escape(_)
escape(s) ==
  IF s = <<>> THEN <<>>
  ELSE (IF Head(s) \in {Quote, Backslash} THEN <<Backslash, Head(s)>> ELSE <<Head(s)>>)
         \o escape(Tail(s))

stringifyString(s) == <<Quote>> \o escape(s) \o <<Quote>>

\* "key":value
member(key, text) == <<Quote, key, Quote, ":">> \o text

RECURSIVE join(_)
join(texts) ==
  IF texts = <<>> THEN <<>>
  ELSE IF Len(texts) = 1 THEN texts[1]
  ELSE texts[1] \o <<",">> \o join(Tail(texts))

stringifyArray(texts) == <<"[">> \o join(texts) \o <<"]">>
stringifyObject(members) == <<"{">> \o join(members) \o <<"}">>

\* JSON.stringify of a version entry {version, timestamp, charsAdded}
stringifyVersion(v) ==
  stringifyObject(<<member("version", toString(v.version)),
                    member("timestamp", toString(v.timestamp)),
                    member("charsAdded", toString(v.charsAdded))>>)

\* JSON.stringify of a channel, its keys in the order the object literals
\* of loadChannels and handleAddChannel list them
stringifyChannel(ch) ==
  stringifyObject(<<member("id", toString(ch.id)),
                    member("name", stringifyString(ch.name)),
                    member("status", stringifyString(ch.status)),
                    member("messageCount", toString(ch.messageCount)),
                    member("lastUpdate", stringifyString(ch.lastUpdate)),
                    member("docUrl", stringifyString(ch.docUrl)),
                    member("threshold", toString(ch.threshold)),
                    member("currentChars", toString(ch.currentChars)),
                    member("slackChannelId", stringifyString(ch.slackChannelId)),
                    member("versions",
                           stringifyArray([i \in 1..Len(ch.versions) |->
                                             stringifyVersion(ch.versions[i])]))>>)

\* JSON.stringify(channels)
JSONstringify(chs) == stringifyArray([i \in 1..Len(chs) |-> stringifyChannel(chs[i])])

\* -- JSON.parse, by recursive descent from token i: the value read and
\* the position after it
RECURSIVE parseString(_, _, _)
parseString(t, i, acc) ==
  IF t[i] = Quote THEN [value |-> acc, next |-> i + 1]
  ELSE IF t[i] = Backslash THEN parseString(t, i + 2, Append(acc, t[i + 1]))
  ELSE parseString(t, i + 1, Append(acc, t[i]))

RECURSIVE parseNumber(_, _, _)
parseNumber(t, i, acc) ==
  IF i <= Len(t) /\ t[i] \in Digits
  THEN parseNumber(t, i + 1, acc * 10 + DigitValue(t[i]))
  ELSE [value |-> acc, next |-> i]

RECURSIVE parseValue(_, _)
RECURSIVE parseElements(_, _, _)
RECURSIVE parseMembers(_, _, _)
\* after an element e of an array: "," and the next element, or "]"
afterElement(t, e, acc) ==
  IF t[e.next] = "," THEN parseElements(t, e.next + 1, Append(acc, e.value))
  ELSE [value |-> Append(acc, e.value), next |-> e.next + 1]

\* after a member key k and its value v: "," and the next member, or "}"
afterMember(t, key, v, acc) ==
  IF t[v.next] = ","
  THEN parseMembers(t, v.next + 1,
                    [f \in DOMAIN acc \cup {key} |-> IF f = key THEN v.value ELSE acc[f]])
  ELSE [value |-> [f \in DOMAIN acc \cup {key} |-> IF f = key THEN v.value ELSE acc[f]],
        next  |-> v.next + 1]

afterKey(t, k, acc) == afterMember(t, k.value[1], parseValue(t, k.next + 1), acc)

parseValue(t, i) ==
  CASE t[i] = Quote -> parseString(t, i + 1, <<>>)
    [] t[i] = "[" -> IF t[i + 1] = "]" THEN [value |-> <<>>, next |-> i + 2]
                     ELSE parseElements(t, i + 1, <<>>)
    [] t[i] = "{" -> IF t[i + 1] = "}" THEN [value |-> EmptyObj, next |-> i + 2]
                     ELSE parseMembers(t, i + 1, EmptyObj)
    [] OTHER      -> parseNumber(t, i, 0)

parseElements(t, i, acc) == afterElement(t, parseValue(t, i), acc)

parseMembers(t, i, acc) == afterKey(t, parseString(t, i + 1, <<>>), acc)

JSONparse(text) == parseValue(text, 1).value

\* parseInt(text, 10) || 10000: a text without leading digits gives NaN,
\* which is falsy like 0
parseIntOr10000(text) ==
  IF text # <<>> /\ Head(text) \in Digits /\ parseNumber(text, 1, 0).value # 0
  THEN parseNumber(text, 1, 0).value ELSE 10000

\* -- the data
\* Date.now() when the page is first opened
PageOpened == 40000000

\* The default demo data of loadChannels
DemoData(now) ==
  <<[id |-> 1, name |-> <<"#engineering-docs">>, status |-> <<"active">>,
     messageCount |-> 247, lastUpdate |-> <<"2 hours ago">>,
     docUrl |-> <<"https://docs.google.com/document/d/example1">>,
     threshold |-> 10000, currentChars |-> 7234, slackChannelId |-> <<>>,
     versions |-> <<[version |-> 3, timestamp |-> now - 10800000, charsAdded |-> 2340],
                    [version |-> 2, timestamp |-> now - 21600000, charsAdded |-> 1890],
                    [version |-> 1, timestamp |-> now - 32400000, charsAdded |-> 1520]>>],
    [id |-> 2, name |-> <<"#product-specs">>, status |-> <<"active">>,
     messageCount |-> 156, lastUpdate |-> <<"5 hours ago">>,
     docUrl |-> <<"https://docs.google.com/document/d/example2">>,
     threshold |-> 10000, currentChars |-> 3421, slackChannelId |-> <<>>,
     versions |-> <<[version |-> 2, timestamp |-> now - 18000000, charsAdded |-> 2100],
                    [version |-> 1, timestamp |-> now - 36000000, charsAdded |-> 1321]>>]>>

\* variant: an empty stored collection counts as nothing stored
loadChannels_demoWhenEmpty(storage, id, now) ==
  IF getItem(storage, channelsKey(id)) # <<>>
       /\ JSONparse(getItem(storage, channelsKey(id))) # <<>>
  THEN JSONparse(getItem(storage, channelsKey(id)))
  ELSE DemoData(now)

\* const loadChannels = (userId) => ...
loadChannels(storage, id, now) ==
  IF getItem(storage, channelsKey(id)) # <<>>
  THEN JSONparse(getItem(storage, channelsKey(id)))
  ELSE DemoData(now)

\* const saveChannels = (userId, channels) => ...
saveChannels(storage, id, chs) == setItem(storage, channelsKey(id), JSONstringify(chs))

\* useState(() => { const stored = ...; return stored ? parseInt(stored, 10) : 10000 })
loadThreshold(storage, id) ==
  IF getItem(storage, thresholdKey(id)) # <<>>
  THEN parseNumber(getItem(storage, thresholdKey(id)), 1, 0).value
  ELSE 10000

\* What the forms of AddChannelModal can hold when they are submitted
DocUrl == <<"https://", "docs.google.com", "/document/d/x">>
FormDatas ==
  {[channelName |-> <<"#", "a", Quote, "b", Backslash>>, docUrl |-> DocUrl,
    slackChannelId |-> <<"C", "1">>, threshold |-> 10000],
   [channelName |-> <<"qa">>, docUrl |-> DocUrl, slackChannelId |-> <<>>,
    threshold |-> 10000],
   [channelName |-> <<"#", "qa">>, docUrl |-> <<"https://", "example.com">>,
    slackChannelId |-> <<>>, threshold |-> 500]}

\* validateForm of AddChannelModal: no error is found
validateForm(formData) ==
  /\ formData.channelName # <<>> /\ Head(formData.channelName) = "#"
  /\ \E k \in 1..Len(formData.docUrl) : formData.docUrl[k] = "docs.google.com"
  /\ ~(formData.threshold < 1000)

\* The ids of the channels on the page
ChannelIds == {channels[k].id : k \in 1..Len(channels)}

\* Date.now() in a handler: one of two later instants, and none that is
\* earlier than the latest time the collection records (an id given by
\* handleAddChannel, a version timestamp)
Latest ==
  LET recorded == {PageOpened} \cup ChannelIds
                    \cup UNION {{channels[k].versions[j].timestamp :
                                   j \in 1..Len(channels[k].versions)} : k \in 1..Len(channels)}
  IN CHOOSE m \in recorded : \A n \in recorded : n <= m
Times == {t \in {PageOpened + 300, PageOpened + 600} : t >= Latest}

\* -- the component
\* The page is opened or reloaded: the useState initialisers run, then the
\* two save effects; the timers of the page left are gone
EpimetheusDashboard(now) ==
  LET id  == getUserId(localStorage)
      chs == loadChannels(id.storage, id.value, now)
      thr == loadThreshold(id.storage, id.value)
  IN /\ mounted' = TRUE
     /\ userId' = id.value
     /\ activeTab' = "dashboard"
     /\ showAddChannel' = FALSE
     /\ isSubmitting' = FALSE
     /\ flows' = EmptyBag
     /\ dialog' = NoDialog
     /\ defaultThreshold' = thr
     /\ channels' = chs
     /\ localStorage' = setItem(saveChannels(id.storage, id.value, chs),
                                thresholdKey(id.value), toString(thr))
     /\ UNCHANGED remoteVars

\* the tab buttons
Dashboard_setActiveTab(tab) ==
  /\ mounted
  /\ activeTab' = tab
  /\ dialog' = NoDialog
  /\ UNCHANGED <<remoteVars, localVars, mounted, flows, localStorage, userId>>

\* variant: the new entry is numbered by the tail entry and appended
forceUpdated_append(ch, now) ==
  [ch EXCEPT !.currentChars = 0,
             !.lastUpdate = <<"just now">>,
             !.messageCount = ch.messageCount + 1,
             !.versions = ch.versions \o
                          <<[version    |-> (IF ch.versions # <<>>
                                             THEN ch.versions[Len(ch.versions)].version
                                             ELSE 0) + 1,
                             timestamp  |-> now,
                             charsAdded |-> ch.currentChars]>>]

\* The channel after the simulated update
forceUpdated(ch, now) ==
  [ch EXCEPT !.currentChars = 0,
             !.lastUpdate = <<"just now">>,
             !.messageCount = ch.messageCount + 1,
             !.versions = <<[version    |-> (IF ch.versions # <<>> THEN ch.versions[1].version
                                             ELSE 0) + 1,
                             timestamp  |-> now,
                             charsAdded |-> ch.currentChars]>> \o ch.versions]

\* the per-channel "Force Update" button, and the save effect
Dashboard_handleForceUpdate(channelId, now) ==
  /\ mounted /\ activeTab = "dashboard"
  /\ channelId \in ChannelIds
  /\ \A k \in 1..Len(channels) :
       channels[k].id = channelId => Len(channels[k].versions) < MaxHistory
  /\ channels' = [k \in 1..Len(channels) |->
                    IF channels[k].id = channelId THEN forceUpdated(channels[k], now)
                    ELSE channels[k]]
  /\ localStorage' = saveChannels(localStorage, userId, channels')
  /\ dialog' = NoDialog
  /\ UNCHANGED <<remoteVars, activeTab, showAddChannel, defaultThreshold, isSubmitting, mounted, flows, userId>>

\* the threshold input of the settings tab, and the save effect
setDefaultThreshold(text) ==
  /\ mounted /\ activeTab = "settings"
  /\ defaultThreshold' = parseIntOr10000(text)
  /\ localStorage' = setItem(localStorage, thresholdKey(userId), toString(defaultThreshold'))
  /\ dialog' = NoDialog
  /\ UNCHANGED <<remoteVars, channels, showAddChannel, isSubmitting, activeTab, mounted, flows, userId>>

\* the "Add Channel" buttons open the modal, its close buttons and its
\* backdrop close it; a modal that opens is a new AddChannelModal
setShowAddChannel(show) ==
  /\ mounted
  /\ show # showAddChannel
  /\ showAddChannel' = show
  /\ isSubmitting' = FALSE
  /\ dialog' = NoDialog
  /\ UNCHANGED <<remoteVars, channels, defaultThreshold,
                 activeTab, mounted, flows, localStorage, userId>>

\* handleSubmit of AddChannelModal: a valid form starts the 300 ms timer
\* whose callback calls the onAdd of this render
handleSubmit(formData) ==
  /\ mounted /\ showAddChannel /\ ~isSubmitting
  /\ InFlight < MaxFlows /\ Len(channels) + InFlight < MaxChannels
  /\ IF validateForm(formData)
     THEN /\ isSubmitting' = TRUE
          /\ flows' = Started(Flow("handleSubmit", "setTimeout", formData,
                                   [defaultThreshold |-> defaultThreshold]))
     ELSE UNCHANGED <<isSubmitting, flows>>
  /\ dialog' = NoDialog
  /\ UNCHANGED <<remoteVars, channels, showAddChannel, defaultThreshold, activeTab, mounted, localStorage, userId>>

\* const newChannel = {...} of handleAddChannel
newChannel(formData, threshold, now) ==
  [id |-> now, name |-> formData.channelName, status |-> <<"active">>,
   messageCount |-> 0, lastUpdate |-> <<"never">>, docUrl |-> formData.docUrl,
   threshold |-> threshold, currentChars |-> 0,
   slackChannelId |-> formData.slackChannelId, versions |-> <<>>]

\* The timer fires: handleAddChannel(formData), setIsSubmitting(false), and
\* the save effect
handleAddChannel(f, now) ==
  /\ f \in Suspended /\ f.awaiting = "setTimeout"
  /\ channels' = Append(channels, newChannel(f.request, f.locals.defaultThreshold, now))
  /\ showAddChannel' = FALSE
  /\ isSubmitting' = FALSE
  /\ flows' = Ended(f)
  /\ localStorage' = saveChannels(localStorage, userId, channels')
  /\ dialog' = NoDialog
  /\ UNCHANGED <<remoteVars, defaultThreshold, activeTab,
                 mounted, userId>>

\* prev.filter(ch => ch.id !== channelId)
RECURSIVE filterChannels(_, _)
filterChannels(chs, channelId) ==
  IF chs = <<>> THEN <<>>
  ELSE IF Head(chs).id # channelId
       THEN <<Head(chs)>> \o filterChannels(Tail(chs), channelId)
       ELSE filterChannels(Tail(chs), channelId)

\* the per-channel remove button, and the save effect when it was confirmed
handleDeleteChannel(channelId, answer) ==
  /\ mounted /\ activeTab = "dashboard"
  /\ channelId \in ChannelIds
  /\ dialog' = Confirm(<<"Are you sure you want to remove this channel?">>, answer)
  /\ channels' = IF answer THEN filterChannels(channels, channelId) ELSE channels
  /\ localStorage' = IF answer THEN saveChannels(localStorage, userId, channels')
                     ELSE localStorage
  /\ UNCHANGED <<remoteVars, showAddChannel, defaultThreshold,
                 isSubmitting, activeTab, mounted, flows, userId>>

\* The text the threshold input can hold
ThresholdTexts == {<<"2", "0", "0", "0">>, <<>>}

\* What the storage holds when the page is first opened: nothing, or the
\* identifier an earlier visit of the remote dashboard left
InitLocal ==
  /\ pass = NewPass(ErrorResp, ErrorResp, <<>>)
  /\ DashInit
  /\ localStorage \in {EmptyObj, [epimetheus_userId |-> StoredUserId]}

NextLocal ==
  \/ \E now \in Times : EpimetheusDashboard(now)
  \/ \E tab \in {"dashboard", "history", "settings"} : Dashboard_setActiveTab(tab)
  \/ \E channelId \in ChannelIds, now \in Times : Dashboard_handleForceUpdate(channelId, now)
  \/ \E text \in ThresholdTexts : setDefaultThreshold(text)
  \/ \E show \in BOOLEAN : setShowAddChannel(show)
  \/ \E formData \in FormDatas : handleSubmit(formData)
  \/ \E f \in Suspended, now \in Times : handleAddChannel(f, now)
  \/ \E channelId \in ChannelIds, answer \in BOOLEAN : handleDeleteChannel(channelId, answer)

SpecLocal == InitLocal /\ [][NextLocal]_vars

\* ------------------------------------------- properties of the aggregation
\* The document list and the metadata list as the remote service sent them
SentDocs == IF pass.docResp.kind = "ok" /\ "documents" \in DOMAIN pass.docResp.json
            THEN pass.docResp.json.documents ELSE <<>>
SentMetas == IF pass.metaResp.kind = "ok" /\ "documents" \in DOMAIN pass.metaResp.json
             THEN pass.metaResp.json.documents ELSE <<>>

\* The metadata record looked up for an id: the last one sent for it, or {}
SentMetaOf(id) ==
  LET idx == {i \in 1..Len(SentMetas) : SentMetas[i].doc_id = id}
  IN IF idx = {} THEN <<>> ELSE SentMetas[CHOOSE m \in idx : \A n \in idx : n <= m]

SentTagsOf(id) == IF "tags" \in DOMAIN SentMetaOf(id) THEN SentMetaOf(id).tags ELSE <<>>

\* Positions of the tags that are strings beginning with "slack:"
SlackPositions(tags) ==
  {i \in 1..Len(tags) :
     /\ tags[i].type = "string"
     /\ Len(tags[i].chars) >= 6
     /\ \A k \in 1..6 : tags[i].chars[k] = <<"s", "l", "a", "c", "k", ":">>[k]}

FirstChars(s, n) == [k \in 1..(IF Len(s) < n THEN Len(s) ELSE n) |-> s[k]]
DropChars(s, n) == [k \in 1..(Len(s) - n) |-> s[k + n]]

\* C1: whenever the document-list request returned a list D (and the metadata
\* request did not return a malformed body), the pass does not throw and
\* returns exactly Len(D) Channels, the i-th having id = D[i].id, whatever the
\* metadata list and whichever version requests failed.
C1_OneChannelPerDocument ==
  (pass.docResp.kind = "ok" /\ "documents" \in DOMAIN pass.docResp.json
     /\ pass.metaResp.kind # "null")
  => /\ pass.pc # "thrown"
     /\ pass.pc = "returned" =>
          /\ Len(pass.ret) = Len(SentDocs)
          /\ \A i \in 1..Len(SentDocs) : pass.ret[i].id = SentDocs[i].id

C1_Witness ==
  /\ pass.pc = "returned" /\ Len(pass.ret) = 2
  /\ pass.ret[1].id = IdB /\ pass.ret[2].id = IdA
  /\ pass.verResps[1].kind = "error" /\ pass.verResps[2].kind = "ok"
  /\ Len(SentMetas) = 2

\* C2: a failed version request of document A leaves the pass returning
\* normally, gives A's Channel versions = [] and actionCount = 0, and leaves
\* every other document B's Channel (name, versions, actionCount) equal to
\* what the pass computes when A's request succeeds.
C2_FailureIsolation ==
  /\ (pass.docResp.kind # "null" /\ pass.metaResp.kind # "null") => pass.pc # "thrown"
  /\ pass.pc = "returned" =>
       \A a \in 1..Len(pass.ret) :
         pass.verResps[a].kind = "error" =>
           /\ pass.ret[a].versions = <<>>
           /\ pass.ret[a].actionCount = 0
           /\ \A r \in AggVerResps :
                r.kind = "ok" =>
                  LET alt == getChannelsData(pass.docResp, pass.metaResp,
                                             [pass.verResps EXCEPT ![a] = r], pass.now).channels
                  IN \A b \in (1..Len(pass.ret)) \ {a} :
                       /\ alt[b].name = pass.ret[b].name
                       /\ alt[b].versions = pass.ret[b].versions
                       /\ alt[b].actionCount = pass.ret[b].actionCount

C2_Witness ==
  /\ pass.pc = "returned" /\ Len(pass.ret) = 2
  /\ pass.verResps[1].kind = "error" /\ pass.ret[1].actionCount = 0
  /\ pass.verResps[2].kind = "ok" /\ pass.ret[2].actionCount = 2

\* C4: a failed document-list or metadata-list request (the other request
\* failing too or returning a well-formed body) never makes the pass throw: a
\* failed document list gives the empty Channel sequence, a failed metadata
\* list one Channel per document with metadata = {} and the name resolved
\* from the document alone.
C4_ListFailuresDegrade ==
  /\ ((pass.docResp.kind = "error" \/ pass.metaResp.kind = "error")
        /\ pass.docResp.kind # "null" /\ pass.metaResp.kind # "null")
       => pass.pc # "thrown"
  /\ (pass.pc = "returned" /\ pass.docResp.kind = "error") => pass.ret = <<>>
  /\ (pass.pc = "returned" /\ pass.metaResp.kind = "error") =>
       /\ Len(pass.ret) = Len(SentDocs)
       /\ \A i \in 1..Len(pass.ret) :
            /\ pass.ret[i].metadata = <<>>
            /\ pass.ret[i].name =
                 IF "name" \in DOMAIN SentDocs[i] /\ SentDocs[i].name # <<>>
                 THEN SentDocs[i].name
                 ELSE <<"Document ">> \o FirstChars(SentDocs[i].id, 8)

C4_Witness ==
  /\ pass.pc = "returned" /\ pass.metaResp.kind = "error"
  /\ Len(pass.ret) = 2 /\ pass.ret[1].name = DocName
  /\ pass.ret[2].name = <<"Document ", "1", "a", "2", "b", "3", "c", "4", "d">>

\* C5: the Channel name is the looked-up metadata record's name when that
\* record exists and its name is non-empty, else the document's own name when
\* non-empty, else "Document " followed by the first 8 characters of the id.
C5_NameFallback ==
  pass.pc = "returned" =>
    \A i \in 1..Len(pass.ret) :
      LET d == SentDocs[i]
          m == SentMetaOf(d.id)
      IN pass.ret[i].name =
           IF "name" \in DOMAIN m /\ m.name # <<>> THEN m.name
           ELSE IF "name" \in DOMAIN d /\ d.name # <<>> THEN d.name
           ELSE <<"Document ">> \o FirstChars(d.id, 8)

C5_Witness ==
  /\ pass.pc = "returned" /\ Len(pass.ret) = 1
  /\ SentMetaOf(SentDocs[1].id) # <<>>
  /\ "name" \in DOMAIN SentMetaOf(SentDocs[1].id)
  /\ SentMetaOf(SentDocs[1].id).name = <<>>
  /\ "name" \in DOMAIN SentDocs[1]
  /\ pass.ret[1].name = DocName

\* C6: slackChannelId is what follows "slack:" in the first tag, in tag
\* order, that is a string beginning with "slack:", and "" when the metadata
\* has no tags or no such tag.
C6_SlackChannelFromFirstTag ==
  pass.pc = "returned" =>
    \A i \in 1..Len(pass.ret) :
      LET tags == SentTagsOf(SentDocs[i].id)
          pos  == SlackPositions(tags)
      IN pass.ret[i].slackChannelId =
           IF pos = {} THEN <<>>
           ELSE DropChars(tags[CHOOSE m \in pos : \A n \in pos : m <= n].chars, 6)

C6_Witness ==
  /\ pass.pc = "returned" /\ Len(pass.ret) = 1
  /\ Len(SentTagsOf(SentDocs[1].id)) = 2
  /\ SlackPositions(SentTagsOf(SentDocs[1].id)) = {2}
  /\ SentTagsOf(SentDocs[1].id)[1].type = "string"
  /\ pass.ret[1].slackChannelId = <<"C", "1">>

\* C7 as stated: slackChannelId is non-empty only if exactly one tag begins
\* with "slack:".
C7_OnlyIfExactlyOneSlackTag ==
  pass.pc = "returned" =>
    \A i \in 1..Len(pass.ret) :
      pass.ret[i].slackChannelId # <<>>
        => Cardinality(SlackPositions(SentTagsOf(SentDocs[i].id))) = 1

\* C7 amended: slackChannelId is non-empty only if at least one tag begins
\* with "slack:" (with several such tags the first one is used).
C7_OnlyIfSomeSlackTag ==
  pass.pc = "returned" =>
    \A i \in 1..Len(pass.ret) :
      pass.ret[i].slackChannelId # <<>>
        => SlackPositions(SentTagsOf(SentDocs[i].id)) # {}

C7_Witness ==
  /\ pass.pc = "returned" /\ Len(pass.ret) = 1
  /\ Cardinality(SlackPositions(SentTagsOf(SentDocs[1].id))) = 2
  /\ pass.ret[1].slackChannelId = <<"C", "2">>

\* -------------------------------------------- properties of the dashboard
\* C3: in every reachable state of the dashboard every Channel held in the
\* collection has actionCount equal to the length of its versions.
C3_ActionCountIsVersionCount ==
  \A i \in 1..Len(documents) : documents[i].actionCount = Len(documents[i].versions)

C3_Witness ==
  /\ dialog = Confirm(<<"Are you sure you want to remove this document from view?">>, TRUE)
  /\ Len(documents) = 1
  /\ documents[1].actionCount = 2

PositionalText(n) == CASE n = 1 -> <<"1">> [] n = 2 -> <<"2">> [] n = 3 -> <<"3">>

\* C8: the identifier placed in a revert request is the versionId the handler
\* was called with whenever that is present, and the positional number as a
\* string only when it is not.
C8_RevertSendsToken ==
  \A f \in Suspended :
    f.awaiting = "revertVersion" =>
      /\ f.request.docId = f.locals.documentId
      /\ f.request.versionId =
           IF f.locals.versionId # <<>> THEN f.locals.versionId
           ELSE PositionalText(f.locals.version)

C8_Witness ==
  \E f, g \in Suspended :
    /\ f.awaiting = "revertVersion" /\ g.awaiting = "revertVersion"
    /\ f.locals.versionId = <<"u", "1">> /\ f.locals.version = 1
    /\ f.request.versionId = <<"u", "1">>
    /\ g.locals.versionId = <<>> /\ g.locals.version = 2
    /\ g.request.versionId = <<"2">>

IsRevertConfirm(d) ==
  d.type = "confirm" /\ d.text[1] = "Are you sure you want to revert to version "

\* the revert requests in flight
RevertRequests(b) ==
  BagCardinality([f \in {g \in DOMAIN b : g.awaiting = "revertVersion"} |-> b[f]])

\* C9: a step in which the revert confirmation is declined changes nothing
\* (no request, no aggregation, same collection, flags, tab and filter), and
\* a revert request is only ever sent by a step whose confirmation was
\* accepted.
C9_RevertNeedsConfirmation ==
  [][/\ (IsRevertConfirm(dialog') /\ ~dialog'.answer)
          => UNCHANGED <<documents, loading, refreshing, error, activeTab,
                         selectedDocumentForHistory, totalMessageCount, flows>>
     /\ RevertRequests(flows') > RevertRequests(flows)
          => (IsRevertConfirm(dialog') /\ dialog'.answer)]_vars

C9_Witness ==
  /\ IsRevertConfirm(dialog) /\ ~dialog.answer
  /\ documents # <<>>
  /\ RevertRequests(flows) = 0

FailureText(resp) ==
  CASE resp.kind = "network" -> "Failed to fetch"
    [] resp.kind = "http" -> resp.body.detail

AwaitingAggregation(f) == f.awaiting \in {"fetchDocuments", "getDocumentsData"}

\* The collections an aggregation can deliver, and the empty one
WholeResults == {o.channels : o \in AggregationOutcomes} \cup {<<>>}

\* C10: when the request of a force-update, revert or resync settles with
\* success the handler goes on to await the aggregation and nothing else
\* changes yet; when it settles with a failure the handler ends without any
\* aggregation, the alert carries the failure message and the collection is
\* unchanged; and whenever a step that resumes a suspended handler changes
\* the collection, the new collection is a complete aggregation result
\* (never a patch of the previous one).
C10_MutationThenAggregation ==
  [][/\ \A f \in Suspended, resp \in DashMutationResps :
          (\/ forceUpdateSettled(f, resp)
           \/ revertVersionSettled(f, resp)
           \/ syncDriveFolderSettled(f, resp))
          => /\ documents' = documents
             /\ IF resp.kind = "ok"
                THEN \E g \in BagToSet(flows') :
                       /\ AwaitingAggregation(g) /\ g.handler = f.handler
                       /\ flows' = (flows (-) SetToBag({f})) (+) SetToBag({g})
                ELSE /\ flows' = flows (-) SetToBag({f})
                     /\ dialog'.type = "alert"
                     /\ dialog'.text[2] = FailureText(resp)
     /\ (documents' # documents /\ flows' # flows)
          => documents' \in WholeResults]_vars

C10_Witness ==
  /\ dialog = Alert(<<"Failed to revert version: ", "version not found">>)
  /\ documents # <<>>
  /\ \A f \in Suspended : ~AwaitingAggregation(f)

\* C11: whenever an aggregation ends with an aggregation-level error, in
\* whichever flow it was started (initial load, refresh, retry, resync,
\* revert or force-update), the step that receives the error sets the
\* page-level error to a message and empties the collection.
C11_AggregationErrorEmptiesCollection ==
  [][\A f \in Suspended, outcome \in AggregationOutcomes :
       (/\ outcome.threw
        /\ \/ getDocumentsDataSettled(f, outcome)
           \/ \E countResp \in MsgCountResps : fetchDocumentsSettled(f, outcome, countResp))
       => (error' # <<>> /\ documents' = <<>>)]_vars

\* The aggregation the mount starts
MountFlow == Flow("fetchDocuments", "fetchDocuments", [op |-> "aggregate"], EmptyObj)

\* C12: before the mount effect the controller has loading = true, error =
\* null, refreshing = false, activeTab = dashboard, an empty collection and
\* nothing in flight; the mount happens once and starts exactly one
\* aggregation; the step in which a fetchDocuments aggregation completes,
\* with success or failure, sets loading to false; and, the requests
\* eventually responding, loading does become false.
C12_InitialLoad ==
  /\ [](~mounted => /\ loading /\ error = <<>> /\ ~refreshing
                    /\ activeTab = "dashboard" /\ documents = <<>>
                    /\ flows = EmptyBag)
  /\ [][/\ mounted => mounted'
        /\ (~mounted /\ mounted') => flows' = SetToBag({MountFlow})
        /\ \A f \in Suspended :
             (f.awaiting = "fetchDocuments" /\ flows' = flows (-) SetToBag({f}))
               => loading' = FALSE]_vars
  /\ <>(mounted /\ ~loading)

C12_Witness ==
  /\ mounted /\ ~loading /\ error # <<>> /\ flows = EmptyBag
  /\ dialog = NoDialog /\ ~refreshing

\* The Channels whose versions the history view has to show
ShownChannels ==
  IF selectedDocumentForHistory = <<>> THEN 1..Len(documents)
  ELSE {i \in 1..Len(documents) : documents[i].id = selectedDocumentForHistory}

\* The versions of those Channels: <<Channel index, version index>>
ShownVersions ==
  UNION {{<<i, k>> : k \in 1..Len(documents[i].versions)} : i \in ShownChannels}

\* The history entry e is version k of Channel i, tagged with its owner
IsEntryOf(e, i, k) ==
  /\ e.documentId = documents[i].id
  /\ e.documentName = documents[i].name
  /\ e.version = documents[i].versions[k].version
  /\ e.versionId = documents[i].versions[k].versionId
  /\ e.timestamp = documents[i].versions[k].timestamp
  /\ e.charsAdded = documents[i].versions[k].charsAdded

RECURSIVE SumOfVersionCounts(_)
SumOfVersionCounts(docs) ==
  IF docs = <<>> THEN 0 ELSE Len(Head(docs).versions) + SumOfVersionCounts(Tail(docs))

\* C13: the history view holds exactly the versions of all Channels when the
\* filter is null, and exactly those of the Channel whose id is the filter
\* otherwise (none if that Channel has no versions or is not in the
\* collection); every entry carries its owner's id and name; the entries are
\* in non-increasing order of timestamp; and with no filter the length of
\* the view is the sum of versions.length over the collection.
C13_HistoryView ==
  /\ Len(allVersions) = Cardinality(ShownVersions)
  /\ \A p \in ShownVersions :
       \E n \in 1..Len(allVersions) : IsEntryOf(allVersions[n], p[1], p[2])
  /\ \A n \in 1..Len(allVersions) :
       \E p \in ShownVersions : IsEntryOf(allVersions[n], p[1], p[2])
  /\ \A n \in 1..(Len(allVersions) - 1) :
       allVersions[n].timestamp >= allVersions[n + 1].timestamp
  /\ selectedDocumentForHistory = <<>> => Len(allVersions) = SumOfVersionCounts(documents)
  /\ (selectedDocumentForHistory # <<>> /\ selectedDocumentForHistory \notin DocumentIds)
       => allVersions = <<>>

C13_Witness ==
  /\ activeTab = "history" /\ selectedDocumentForHistory = <<>>
  /\ Len(documents) = 2
  /\ Len(allVersions) = 3
  /\ allVersions # flatMapVersions(documents)
  /\ allVersions[2].timestamp = allVersions[3].timestamp

RECURSIVE SumOfMessageCounts(_)
SumOfMessageCounts(docs) ==
  IF docs = <<>> THEN 0 ELSE Head(docs).messageCount + SumOfMessageCounts(Tail(docs))

\* C14: in every reachable state each of the three summary counters equals
\* the value recomputed from the collection held at that moment: the sum of
\* messageCount, the number of Channels and the sum of versions.length.
C14_CountersAreReductions ==
  /\ statsCards.totalMessages = SumOfMessageCounts(documents)
  /\ statsCards.activeDocuments = Cardinality(DOMAIN documents)
  /\ statsCards.totalVersions = SumOfVersionCounts(documents)

\* The empty or zero value a soft function falls back to
SoftDefault(fn) ==
  CASE fn = "getStatus"         -> EmptyObj
    [] fn = "getDocuments"      -> [documents |-> <<>>]
    [] fn = "getAllMetadata"    -> [documents |-> <<>>, count |-> 0]
    [] fn = "getVersionHistory" -> <<>>

\* C15: a failure of the status request, the document-list request, the
\* metadata-list request or a per-document version fetch never reaches the
\* caller as a raised error: the caller gets an empty/zero default.
C15_SoftFailuresNeverPropagate ==
  (/\ pass.pc = "settled"
   /\ pass.fn \in {"getStatus", "getDocuments", "getAllMetadata", "getVersionHistory"}
   /\ pass.resp.kind # "ok")
  => (~pass.outcome.threw /\ pass.outcome.value = SoftDefault(pass.fn))

HardMutations ==
  {"createDocument", "updateMetadata", "forceUpdate", "revertVersion", "syncDriveFolder"}

GenericMessage(fn) ==
  CASE fn = "createDocument"  -> "Failed to create document"
    [] fn = "updateMetadata"  -> "Failed to update metadata"
    [] fn = "forceUpdate"     -> "Failed to force update"
    [] fn = "revertVersion"   -> "Failed to revert version"
    [] fn = "syncDriveFolder" -> "Failed to sync Drive folder"

CarriesDetail(resp) ==
  resp.kind = "http" /\ Has(resp.body, "detail") /\ resp.body.detail # ""

\* C16: for each hard mutation a non-success response raises an error to the
\* caller, with the server's detail as message when the response carries
\* one and the operation's generic message otherwise.
C16_HardFailuresCarryDetail ==
  (/\ pass.pc = "settled"
   /\ pass.fn \in HardMutations
   /\ pass.resp.kind \in {"http", "httpText"})
  => /\ pass.outcome.threw
     /\ pass.outcome.message = IF CarriesDetail(pass.resp) THEN pass.resp.body.detail
                               ELSE GenericMessage(pass.fn)

\* C17: the message-count request gives the server's count on success and 0
\* on any failure, never raising: a fetchDocuments whose aggregation
\* succeeded stores the delivered collection and that count, and leaves the
\* page-level error as it was, whether the message-count request failed or
\* not.
C17_MessageCountNeverFails ==
  [][\A f \in Suspended, outcome \in AggregationOutcomes, countResp \in MsgCountResps :
       (~outcome.threw /\ fetchDocumentsSettled(f, outcome, countResp))
       => /\ error' = error
          /\ documents' = outcome.channels
          /\ totalMessageCount' = IF countResp.kind = "ok" THEN countResp.json.count ELSE 0]_vars

C17_Witness ==
  /\ mounted /\ ~loading /\ flows = EmptyBag
  /\ error = <<>> /\ Len(documents) = 2
  /\ totalMessageCount = 0

\* "n unit(s) ago", the unit singular exactly when n = 1
Ago(n, unit) == [n |-> n, unit |-> IF n = 1 THEN unit ELSE unit \o "s", tail |-> "ago"]

\* The age string by the integer age delta, in seconds
TimeAgoOf(delta) ==
  IF delta < 60 THEN [text |-> "just now"]
  ELSE IF delta < 3600 THEN Ago(delta \div 60, "minute")
  ELSE IF delta < 86400 THEN Ago(delta \div 3600, "hour")
  ELSE Ago(delta \div 86400, "day")

\* C18: the age string of a document is a function of delta = floor((now -
\* t) / 1000) alone: "just now" below 60, minutes (floor(delta / 60)) below
\* 3600, hours (floor(delta / 3600)) below 86400, days (floor(delta /
\* 86400)) from there on, the unit singular exactly when the number is 1; 0
\* and 59 give "just now", 60 "1 minute ago", 3599 "59 minutes ago", 3600
\* "1 hour ago", 86400 "1 day ago".
C18_TimeAgo ==
  (pass.pc = "returned" /\ Len(pass.ret) = 1)
  => LET t      == pass.documents[1].modified_time * 1000
         delta  == (pass.now - t) \div 1000
         result == pass.ret[1].lastUpdate
     IN /\ result = TimeAgoOf(delta)
        /\ delta \in {0, 59} => result = [text |-> "just now"]
        /\ delta = 60 => result = [n |-> 1, unit |-> "minute", tail |-> "ago"]
        /\ delta = 3599 => result = [n |-> 59, unit |-> "minutes", tail |-> "ago"]
        /\ delta = 3600 => result = [n |-> 1, unit |-> "hour", tail |-> "ago"]
        /\ delta = 86400 => result = [n |-> 1, unit |-> "day", tail |-> "ago"]

C18_Witness ==
  /\ pass.pc = "returned" /\ Len(pass.ret) = 1
  /\ pass.now = 86400000 /\ pass.documents[1].modified_time = 0
  /\ pass.ret[1].lastUpdate = [n |-> 1, unit |-> "day", tail |-> "ago"]

\* C19: a step of the dashboard changes the persistent storage only by
\* adding the key epimetheus_userId, only on entry and only when the key is
\* absent; every other key and an identifier already stored keep their
\* value through every fetch, refresh, resync, force-update, revert, local
\* removal, tab change and filter change; the identifier the dashboard uses
\* is the stored one; and calling getUserId again stores and returns the
\* same identifier.
C19_OnlyUserIdIsPersisted ==
  [][/\ \A k \in DOMAIN localStorage :
          k \in DOMAIN localStorage' /\ localStorage'[k] = localStorage[k]
     /\ DOMAIN localStorage' \subseteq DOMAIN localStorage \cup {UserIdKey}
     /\ localStorage' # localStorage
          => (~mounted /\ mounted' /\ ~Has(localStorage, UserIdKey))
     /\ mounted' => (Has(localStorage', UserIdKey) /\ userId' = localStorage'[UserIdKey])
     /\ getUserId(localStorage') = [storage |-> localStorage', value |-> userId']
          \/ ~mounted']_vars

C19_Witness ==
  /\ mounted /\ userId = generateUserId
  /\ localStorage = [epimetheus_userId |-> generateUserId]
  /\ activeTab = "history" /\ selectedDocumentForHistory # <<>>
  /\ dialog.type = "alert" /\ Len(documents) = 2

\* The refresh and resync operations in flight
RefreshOps(b) ==
  BagCardinality([f \in {g \in DOMAIN b : g.handler \in {"refreshDocuments", "handleResyncDrive"}}
                    |-> b[f]])

\* C20: at no time are two operations from {refresh, resync} in flight
\* together; while one is in flight refreshing is true; one is started only
\* while refreshing and loading are both false, and starting it removes
\* nothing that is already in flight.
C20_RefreshResyncExclusive ==
  [][/\ RefreshOps(flows') <= 1
     /\ RefreshOps(flows') = 1 => refreshing'
     /\ RefreshOps(flows') > RefreshOps(flows)
          => /\ ~refreshing /\ ~loading
             /\ flows \sqsubseteq flows']_vars

C20_Witness ==
  /\ RefreshOps(flows) = 1 /\ InFlight = 2 /\ refreshing
  /\ \E f \in Suspended : f.handler = "handleResyncDrive" /\ f.awaiting = "fetchDocuments"
  /\ \E f \in Suspended : f.handler = "handleForceUpdate"

\* The aggregation passes in flight
Aggregations(b) ==
  BagCardinality([f \in {g \in DOMAIN b : AwaitingAggregation(g)} |-> b[f]])

\* A successful aggregation delivers one of these collections
FreshResults == {o.channels : o \in {x \in AggregationOutcomes : ~x.threw}}

\* C21: no step cancels a handler in flight (a step ends at most the one
\* handler it resumes, and a step that starts one ends none), and the step
\* in which a pass completes applies its result whether or not other passes
\* are in flight or have completed since it was started: the collection
\* becomes a complete aggregation result (empty after a failed
\* fetchDocuments), or stays as it was with the failure alert of a
\* force-update.  So of two passes in flight the one that completes last
\* decides the collection, also when it is the one started first.
C21_LastCompletionWins ==
  [][/\ BagCardinality(flows (-) flows') <= 1
     /\ InFlight' > InFlight => flows \sqsubseteq flows'
     /\ \A f \in Suspended :
          (AwaitingAggregation(f) /\ flows' = flows (-) SetToBag({f}))
          => \/ documents' \in FreshResults
             \/ f.awaiting = "fetchDocuments" /\ documents' = <<>> /\ error' # <<>>
             \/ /\ f.awaiting = "getDocumentsData"
                /\ documents' = documents
                /\ dialog' = Alert(<<"Failed to trigger update: ", TypeErrorMessage>>)]_vars

\* Two passes in flight, one of a force-update and one of a refresh, over a
\* collection that neither of them can deliver
C21_Witness ==
  /\ Aggregations(flows) = 2
  /\ \E f \in Suspended : f.handler = "handleForceUpdate" /\ f.awaiting = "getDocumentsData"
  /\ \E f \in Suspended : f.handler = "refreshDocuments" /\ f.awaiting = "fetchDocuments"
  /\ Len(documents) = 1

MutationHandlers == {"handleResyncDrive", "handleForceUpdate", "handleRevertVersion"}

\* The mutations in flight, and those of them whose request is not answered
Mutations(b) ==
  BagCardinality([f \in {g \in DOMAIN b : g.handler \in MutationHandlers} |-> b[f]])

MutationRequests(b) ==
  BagCardinality([f \in {g \in DOMAIN b : g.awaiting \in {"syncDriveFolder", "forceUpdate",
                                                          "revertVersion"}} |-> b[f]])

\* The user starts a mutation
MutationTrigger ==
  \/ handleResyncDrive
  \/ \E documentId \in {IdA, IdB} : handleForceUpdate(documentId)
  \/ \E a \in RevertArgs : handleRevertVersion(a[1], a[2], a[3], TRUE)

\* C22: a mutation request is sent only by a step that starts a mutation,
\* one request per step, never by a step that resumes a handler (no
\* automatic retry); the step in which a mutation ends shows a success or a
\* failure alert; a failed request ends its mutation at once and leaves
\* loading, the collection and the tab as they were and refreshing false
\* after a resync, so that it blocks no later mutation; and, every request
\* eventually responding, the mutations in flight all end unless the user
\* keeps starting new ones.
C22_MutationLifecycle ==
  /\ [][/\ MutationRequests(flows') > MutationRequests(flows)
             => /\ MutationRequests(flows') = MutationRequests(flows) + 1
                /\ Mutations(flows') = Mutations(flows) + 1
                /\ flows \sqsubseteq flows'
        /\ \A f \in Suspended :
             (f.handler \in MutationHandlers /\ flows' = flows (-) SetToBag({f}))
             => dialog'.type = "alert"
        /\ \A f \in Suspended :
             (/\ f.awaiting \in {"syncDriveFolder", "forceUpdate", "revertVersion"}
              /\ MutationRequests(flows') < MutationRequests(flows)
              /\ dialog'.type = "alert")
             => /\ InFlight' = InFlight - 1
                /\ UNCHANGED <<loading, documents, activeTab, error>>
                /\ refreshing' => refreshing
        /\ (dialog'.type = "alert" /\ dialog'.text[1] \in {"Failed to sync Drive: ",
                                                            "Failed to trigger update: ",
                                                            "Failed to revert version: "})
             => Mutations(flows') = Mutations(flows) - 1]_vars
  /\ ([]<><<MutationTrigger>>_vars) \/ <>[](Mutations(flows) = 0)

C22_Witness ==
  /\ dialog = Alert(<<"Failed to sync Drive: ", NetworkErrorMessage>>)
  /\ ~refreshing /\ Mutations(flows) = 1
  /\ \E f \in Suspended : f.handler = "handleForceUpdate" /\ f.awaiting = "getDocumentsData"

IsDeleteConfirm(d) ==
  d.type = "confirm" /\ d.text = <<"Are you sure you want to remove this document from view?">>

\* docs without its i-th element
Without(docs, i) == SubSeq(docs, 1, i - 1) \o SubSeq(docs, i + 1, Len(docs))

\* C23: the step of a local removal sends no request and touches nothing
\* but the collection; declined, it leaves the collection as it is;
\* confirmed, it removes exactly the Channel with the given id and keeps the
\* other Channels and their order; and a successful aggregation installs
\* the fresh result as a whole, so a removed document that the service
\* still lists is back in the collection.
C23_LocalRemoval ==
  [][/\ IsDeleteConfirm(dialog')
          => /\ UNCHANGED <<flows, localStorage, loading, error, refreshing, activeTab,
                            selectedDocumentForHistory, totalMessageCount>>
             /\ ~dialog'.answer => documents' = documents
     /\ \A documentId \in {IdA, IdB} :
          handleDeleteDocument(documentId, TRUE)
          => /\ IsDeleteConfirm(dialog')
             /\ \E i \in 1..Len(documents) :
                  documents[i].id = documentId /\ documents' = Without(documents, i)
             /\ \A i \in 1..Len(documents') : documents'[i].id # documentId
     /\ \A f \in Suspended, outcome \in AggregationOutcomes :
          (/\ ~outcome.threw
           /\ \/ getDocumentsDataSettled(f, outcome)
              \/ \E countResp \in MsgCountResps : fetchDocumentsSettled(f, outcome, countResp))
          => /\ documents' = outcome.channels
             /\ \A i \in 1..Len(outcome.channels) : outcome.channels[i].id \in
                  {documents'[k].id : k \in 1..Len(documents')}]_vars

\* The first document has been removed while a pass that will bring it back
\* is in flight
C23_Witness ==
  /\ IsDeleteConfirm(dialog) /\ dialog.answer
  /\ Len(documents) = 1 /\ documents[1].id = IdB
  /\ \E f \in Suspended : f.awaiting = "getDocumentsData"

\* C24: the versions of a Channel have the length and the order of the
\* version list its version-history request returned, and the k-th entry
\* has the positional number k, the version_id of the k-th record and its
\* metadata.chars_added, or 0 where chars_added or metadata is absent.
C24_VersionsFollowTheResponse ==
  pass.pc = "returned" =>
    \A i \in 1..Len(pass.ret) :
      LET resp     == pass.verResps[i]
          list     == IF resp.kind = "ok" /\ Has(resp.json, "versions")
                      THEN resp.json.versions ELSE <<>>
          versions == pass.ret[i].versions
      IN /\ Len(versions) = Len(list)
         /\ \A k \in 1..Len(list) :
              /\ versions[k].version = k
              /\ versions[k].versionId =
                   IF "version_id" \in DOMAIN list[k] THEN list[k].version_id ELSE <<>>
              /\ versions[k].charsAdded =
                   IF "metadata" \in DOMAIN list[k] /\ "chars_added" \in DOMAIN list[k].metadata
                   THEN list[k].metadata.chars_added ELSE 0

C24_Witness ==
  /\ pass.pc = "returned" /\ Len(pass.ret) = 1
  /\ Len(pass.ret[1].versions) = 2
  /\ pass.ret[1].versions[1].versionId = <<"u", "3">> /\ pass.ret[1].versions[1].charsAdded = 0
  /\ pass.ret[1].versions[2].versionId = <<"u", "1">> /\ pass.ret[1].versions[2].charsAdded = 5

\* C25: refreshing is true exactly while a refresh or a resync is in
\* flight, and the step that ends one (the sync request failed, the
\* aggregation after it failed, or everything succeeded) leaves
\* refreshing false.
C25_RefreshingWhileInFlight ==
  [][/\ refreshing' <=> RefreshOps(flows') = 1
     /\ RefreshOps(flows') < RefreshOps(flows) => ~refreshing' /\ RefreshOps(flows') = 0]_vars

C25_Witness ==
  /\ ~refreshing /\ RefreshOps(flows) = 0 /\ InFlight = 1
  /\ dialog.type = "alert" /\ Head(dialog.text) = "Failed to sync Drive: "

\* The fetchDocuments calls in flight
Loads(b) ==
  BagCardinality([f \in {g \in DOMAIN b : g.awaiting = "fetchDocuments"} |-> b[f]])

\* C26: in every reachable state, loading = false implies that no
\* fetchDocuments aggregation is in flight.
C26_LoadingReflectsLoads ==
  ~loading => Loads(flows) = 0

\* C27: in every reachable state a non-null page-level error implies an
\* empty Channel collection.
C27_ErrorImpliesEmptyCollection ==
  error # <<>> => documents = <<>>

\* C28: for fixed responses every order of completion of the per-document
\* version requests gives the same returned Channel sequence, the one
\* getChannelsData computes from the responses alone; the pass returns only
\* when no version request is outstanding; and every document has exactly
\* one version request, which is either outstanding or has delivered its
\* result, and settles once.
C28_CompletionOrderIndependent ==
  [][/\ pass'.pc = "returned" =>
          /\ pass'.ret = getChannelsData(pass.docResp, pass.metaResp, pass.verResps,
                                         pass.now).channels
          /\ pass'.pending = {}
          /\ DOMAIN pass'.results = 1..Len(pass'.documents)
     /\ pass'.pc = "versions" =>
          /\ pass'.documents = ListedDocs(pass.docResp)
          /\ pass'.pending \cup DOMAIN pass'.results = 1..Len(pass'.documents)
          /\ pass'.pending \cap DOMAIN pass'.results = {}
     /\ pass.pc = "versions" =>
          \E i \in pass.pending :
            /\ pass'.pending = pass.pending \ {i}
            /\ DOMAIN pass'.results = DOMAIN pass.results \cup {i}
            /\ \A k \in DOMAIN pass.results : pass'.results[k] = pass.results[k]]_passVars

C28_Witness ==
  /\ pass.pc = "versions" /\ Len(pass.documents) = 2
  /\ pass.pending = {1} /\ DOMAIN pass.results = {2}
  /\ pass.verResps[1].kind = "ok" /\ pass.verResps[2].kind = "ok"
  /\ pass.verResps[1] # pass.verResps[2]

\* The version numbers of a channel decrease strictly from head to tail and
\* the head number is the number of versions
WellNumbered(ch) ==
  /\ \A j \in 1..Len(ch.versions) - 1 : ch.versions[j].version > ch.versions[j + 1].version
  /\ ch.versions # <<>> => ch.versions[1].version = Len(ch.versions)

\* C29: in the local-storage dashboard a force-update on channel c prepends
\* to c.versions an entry numbered head + 1 (1 when c has no versions) whose
\* charsAdded is c's currentChars before the update, sets currentChars to 0,
\* increments messageCount and leaves every other channel unchanged; and
\* from the default data, after any add-channel, remove and force-update
\* operations, every channel's version numbers decrease strictly from head
\* to tail with the head number equal to versions.length.
C29_ForceUpdateNumbersVersions ==
  [][/\ \A c \in ChannelIds, now \in Times :
          Dashboard_handleForceUpdate(c, now) =>
            /\ Len(channels') = Len(channels)
            /\ \A k \in 1..Len(channels) :
                 IF channels[k].id = c
                 THEN /\ Len(channels'[k].versions) = Len(channels[k].versions) + 1
                      /\ Tail(channels'[k].versions) = channels[k].versions
                      /\ channels'[k].versions[1].version =
                           IF channels[k].versions = <<>> THEN 1
                           ELSE channels[k].versions[1].version + 1
                      /\ channels'[k].versions[1].charsAdded = channels[k].currentChars
                      /\ channels'[k].currentChars = 0
                      /\ channels'[k].messageCount = channels[k].messageCount + 1
                      /\ channels'[k].id = c
                      /\ channels'[k].name = channels[k].name
                 ELSE channels'[k] = channels[k]
     /\ \A k \in 1..Len(channels') : WellNumbered(channels'[k])]_vars

C29_Witness ==
  /\ mounted /\ Len(channels) = 2
  /\ channels[1].id = 2 /\ Len(channels[1].versions) = 3
  /\ channels[1].versions[1].version = 3 /\ channels[1].versions[1].charsAdded = 3421
  /\ channels[1].currentChars = 0 /\ channels[1].messageCount = 157
  /\ channels[2].id \in Times /\ Len(channels[2].versions) = 2
  /\ channels[2].versions[1].version = 2 /\ channels[2].versions[2].version = 1
  /\ channels[2].versions[2].charsAdded = 0 /\ channels[2].messageCount = 2

\* C30: in the local-storage dashboard, every step that opens the page or
\* changes the channel collection or the storage (add, remove,
\* force-update included) leaves under epimetheus_channels_<userId> the
\* serialised in-memory collection, and loading that value returns exactly
\* the collection; a reload of the page keeps the collection, an emptied
\* one included; what is loaded is the demo data when nothing is stored
\* under the key and the stored collection otherwise.
C30_ChannelsRoundTrip ==
  [][/\ (mounted' /\ <<mounted, userId, channels, localStorage>>' #
                       <<mounted, userId, channels, localStorage>>) =>
          /\ Has(localStorage', channelsKey(userId'))
          /\ localStorage'[channelsKey(userId')] = JSONstringify(channels')
          /\ \A now \in Times : loadChannels(localStorage', userId', now) = channels'
     /\ \A now \in Times :
          EpimetheusDashboard(now) =>
            /\ mounted => channels' = channels /\ userId' = userId
            /\ channels' = IF getItem(localStorage, channelsKey(userId')) = Null
                           THEN DemoData(now)
                           ELSE JSONparse(localStorage[channelsKey(userId')])]_vars

C30_Witness ==
  /\ mounted /\ channels = <<>> /\ dialog = NoDialog /\ flows = EmptyBag
  /\ activeTab = "dashboard" /\ ~showAddChannel
  /\ localStorage[channelsKey(userId)] = <<"[", "]">>

====
